---- MODULE Spec2Model ----
(***************************************************************************)
(* A model of the collection pipeline of aibyz-dataset:                    *)
(*   - codes/common/storage.py   the partitioned store                     *)
(*   - codes/common/http.py      get_json, the retrying fetch client       *)
(*   - codes/collectors/*.py     the per-chain collectors (collect,        *)
(*                               _blocks, sequential and pooled)           *)
(* Three specifications share the store operators:                         *)
(*   SpecStore    direct calls of part_path / write_rows /                 *)
(*                write_provenance / read_any on one partition             *)
(*   SpecHttp     calls of get_json, one attempt or sleep per step         *)
(*   SpecCollect  calls of <Chain>Collector.collect                        *)
(***************************************************************************)
EXTENDS Integers, Sequences, FiniteSets, TLC

(***************************************************************************)
(* Bounds of the model (not program constants).                            *)
(***************************************************************************)
\* largest height / slot / head position of the source
MaxHeight == 2
\* largest max_workers configured
MaxWorkers == 2
\* largest explicit lookback passed to collect
MaxLookback == 2
\* largest key of a row handed to write_rows by a direct caller
MaxKey == 1
\* kinds of exception one request attempt may raise
NumExcKinds == 2
\* largest end of the window of a collect call over several datasets
MaxRunItems == 2
\* largest rate_limit_seconds of an HttpClient
MaxRate == 2
\* most pages a paginated source serves for one listing
MaxPages == 2
\* most entries (attestations, slashings, validators, ...) of one payload
MaxEntries == 2
\* latest reading of the wall clock, in seconds
MaxClock == 2
\* threads that share one HttpClient
MaxThreads == 2
\* most _wait_for_slot calls of one thread
MaxCalls == 2
\* latest reading of time.monotonic(), in seconds
MaxTime == 4

VARIABLES
  \* ---- the store (common/storage.py)
  fs,          \* partition -> directory state
  storeOp,     \* the last store call of a direct caller
  storeExc,    \* the exception that call raised ("" when it returned)
  storeFmt,    \* the fmt argument of that call ("" when it has none)
  lastRows,    \* the rows of the most recent write_rows call that returned
  storeRet,    \* the frame that call returned (read_any), else <<>>
  wroteFresh,  \* whether that write_rows call found the partition without files
  lastProv,    \* the payload of the most recent write_provenance call that returned,
               \* and whether the call found a sidecar with another content
  \* ---- one get_json call (common/http.py)
  hpc,         \* "idle" | "request" | "sleep" | "returned" | "raised"
  attempt,     \* get_json's attempt counter
  delay,       \* get_json's delay, in milliseconds
  requests,    \* outcome of every request issued by the call, in order
  sleeps,      \* duration of every backoff sleep of the call, in milliseconds
  raised,      \* the exception the call raised to its caller (optional)
  \* ---- one collector object and its collect call (collectors/*.py)
  chain,       \* self.chain_id
  format,      \* self.format
  max_workers, \* self.max_workers
  fs0,         \* the store as it was when collect was called
  datasets,    \* the datasets argument of the call
  cpc,         \* where the collect call stands
  explicit,    \* whether the caller gave both bounds
  head,        \* the head position the source reported (optional)
  win,         \* the resolved window [start, end] (optional)
  nextItem,    \* the next height/slot the loop or the submitter takes
  task,        \* height/slot -> state and outcome of its fetch task
  rows,        \* the list "rows" of _blocks
  fetchLog,    \* every fetch issued to the source by the call, in order
  cexc,        \* the exception collect raised to its caller (optional)
  \* ---- one collect call over all its datasets (collectors/*.py)
  cur,         \* the dataset method the call is in ("" outside of them)
  phase,       \* where that method stands
  todo,        \* the items of the window not yet fetched or submitted
  inflight,    \* the fetches submitted to the pool and not yet consumed
  cursor,      \* page_key: the cursor the next page request carries (optional)
  served,      \* the pages the source served to the current method, in order
  events,      \* every fetch and store write of the call, in order
  \* ---- one curate command (cli.py, curators/common.py)
  kpc,         \* "idle" | "done" | "raised"
  kexc,        \* the exception the command ended with ("" when it returned)
  \* ---- one features command (cli.py, features/*.py)
  fpc,         \* "idle" | "stats" | "done" | "raised"
  fexc,        \* the exception the command ended with ("" when it returned)
  statsRows,   \* the list "rows" build_validator_stats_daily built (optional)
  trustRows,   \* the list "rows" build_trust_signals_daily built (optional)
  \* ---- one HttpClient object and its last call (minimalApproach/code/http.py)
  api_key,            \* self.api_key
  api_key_transport,  \* self.api_key_transport
  rate_limit_seconds, \* self.rate_limit_seconds
  clientOp,      \* the method last called on the object ("none" before any)
  clientArgs,    \* the arguments of that call
  clientExc,     \* the exception that call raised ("" when it returned)
  clientRet,     \* what that call returned (optional)
  clientHeaders, \* the headers dict of that call as the call left it
  clientSent,    \* the requests the object sent through its session, in order
  \* ---- one call of a dataset method of a collector (collectors/*.py)
  mds,         \* the dataset of the method ("" before the call)
  mpc,         \* "idle" | "fetch" | "write" | "prov" | "done" | "raised"
  mend,        \* the end of the window [1, mend] the method was called with
  clock,       \* datetime.now(timezone.utc).timestamp(), in seconds
  now,         \* the local "now" of the method (optional)
  mitem,       \* the next item of the window the loop takes
  page_key,    \* the local "page_key" of a pagination loop (optional)
  mrows,       \* the list "rows" / "all_rows" of the method
  mlog,        \* every fetch of the call and the payload it got, in order
  mexc,        \* the exception the method raised ("" when none)
  \* ---- the window arguments of a collect call (collectors/*.py)
  start_arg,    \* start_slot / start_height (optional: None is <<>>)
  end_arg,      \* end_slot / end_height (optional)
  lookback_arg, \* lookback_slots / lookback_blocks (optional)
  \* ---- one collect_validator_rows call (minimalApproach/code/collectors)
  indexes,     \* the list of validator indexes passed to the call
  answers,     \* index -> what the source answers to its two requests
  ppc,         \* "idle" | "loop" | "returned"
  ppos,        \* the position in indexes the for loop is at
  prows,       \* the list "rows" of the call
  \* ---- the module-level requests.Session of common/http.py
  session,     \* the get_json calls that went through it so far: each
               \* leaves its connection and its cookies in the session
  \* ---- the pacing of an HttpClient shared by threads (minimalApproach http.py)
  monotonic,   \* time.monotonic(), in seconds
  next_at,     \* self._next_at
  lock,        \* self._lock: the thread that holds it (0: none)
  tpc,         \* thread -> "idle" | "waiting" (for the lock) | "sleeping"
  tnow,        \* thread -> the local "now" of its _wait_for_slot call
  calls,       \* thread -> the _wait_for_slot calls it has made
  starts,      \* the calls that returned: the thread and the time of return
  \* ---- the source's side of the last get_json call on the HttpClient
  responses,   \* what the source answers to the call's requests, in order
  tries,       \* the requests that call sent through self._session.get
  slept        \* the delays that call passed to time.sleep at line 47

storeHist == <<storeOp, storeExc, storeFmt, lastRows, storeRet, wroteFresh, lastProv>>
storeVars == <<fs, storeHist>>
httpVars == <<hpc, attempt, delay, requests, sleeps, raised>>
collVars == <<chain, format, max_workers, fs0, datasets, cpc, explicit, head, win, nextItem, task, rows, fetchLog, cexc>>
runVars == <<cur, phase, todo, inflight, cursor, served, events>>
curVars == <<kpc, kexc>>
featVars == <<fpc, fexc, statsRows, trustRows>>
clientVars == <<api_key, api_key_transport, rate_limit_seconds, clientOp, clientArgs, clientExc, clientRet, clientHeaders, clientSent>>
methVars == <<mds, mpc, mend, clock, now, mitem, page_key, mrows, mlog, mexc>>
argVars == <<start_arg, end_arg, lookback_arg>>
perfVars == <<indexes, answers, ppc, ppos, prows>>
sessVars == <<session>>
paceVars == <<monotonic, next_at, lock, tpc, tnow, calls, starts>>
retryVars == <<responses, tries, slept>>
restVars == <<methVars, argVars, perfVars, sessVars, paceVars, retryVars>>
otherButSession == <<runVars, curVars, featVars, clientVars, methVars, argVars, perfVars, paceVars, retryVars>>
sideButSession == <<curVars, featVars, clientVars, methVars, argVars, perfVars, paceVars, retryVars>>
baseVars == <<storeVars, httpVars, collVars, runVars, curVars, featVars>>
sideVars == <<curVars, featVars, clientVars, restVars>>
otherVars == <<runVars, sideVars>>
vars == <<storeVars, httpVars, collVars, otherVars>>

(***************************************************************************)
(* Values.  An optional value is a sequence of length <= 1.                *)
(* A cell is one value of a row: an int, a float (v is its integral        *)
(* value), a string (s, indexed by v), Python None, or pandas NaN.         *)
(***************************************************************************)
NoneCell == [t |-> "none", v |-> 0, s |-> ""]
NaNCell == [t |-> "nan", v |-> 0, s |-> ""]
IntCell(n) == [t |-> "int", v |-> n, s |-> ""]
FloatCell(n) == [t |-> "float", v |-> n, s |-> ""]
StrCell(x, n) == [t |-> "str", v |-> n, s |-> x]
\* str(n): the string of the decimal digits of n
DigitStr(n) == [t |-> "str", v |-> n, s |-> ""]

(***************************************************************************)
(* common/schemas.py: Block(...).model_dump()                              *)
(***************************************************************************)
Block(chain_id, network, height_or_slot, epoch, block_hash, parent_hash, proposer_index, proposer_address, timestamp_utc) ==
  [chain_id |-> StrCell(chain_id, 0), network |-> StrCell(network, 0),
   height_or_slot |-> IntCell(height_or_slot), epoch |-> epoch,
   block_hash |-> block_hash, parent_hash |-> parent_hash,
   proposer_index |-> proposer_index, proposer_address |-> proposer_address,
   timestamp_utc |-> timestamp_utc]

\* common/schemas.py: Validator(...).model_dump()
Validator(chain_id, network, snapshot_ts, validator_id, status, balance, effective_balance, pubkey) ==
  [chain_id |-> StrCell(chain_id, 0), network |-> StrCell(network, 0),
   snapshot_ts |-> IntCell(snapshot_ts), validator_id |-> validator_id,
   status |-> status, balance |-> balance,
   effective_balance |-> effective_balance, pubkey |-> pubkey]

\* common/schemas.py: Attestation(...).model_dump()
Attestation(chain_id, network, height_or_slot, epoch, committee_index, head_block_root, source_epoch, target_epoch) ==
  [chain_id |-> StrCell(chain_id, 0), network |-> StrCell(network, 0),
   height_or_slot |-> IntCell(height_or_slot), epoch |-> epoch,
   committee_index |-> committee_index, head_block_root |-> head_block_root,
   source_epoch |-> source_epoch, target_epoch |-> target_epoch]

\* common/schemas.py: Penalty(...).model_dump()
Penalty(chain_id, network, height_or_slot, validator_id, penalty_type, value, meta_json) ==
  [chain_id |-> StrCell(chain_id, 0), network |-> StrCell(network, 0),
   height_or_slot |-> IntCell(height_or_slot), validator_id |-> validator_id,
   penalty_type |-> penalty_type, value |-> value, meta_json |-> meta_json]

(***************************************************************************)
(* common/storage.py                                                       *)
(*                                                                         *)
(* The store maps a partition to its directory: whether it exists and the  *)
(* files in it.  A file is an optional content (<<>>: no such file).       *)
(*   csv      part-000.csv       the text rows to_csv wrote                *)
(*   parquet  part-000.parquet   the typed rows to_parquet wrote           *)
(*   empty    part-000.empty     the empty marker                          *)
(*   prov     _PROVENANCE.json   the provenance payload                    *)
(***************************************************************************)
NoDir == [dir |-> FALSE, csv |-> <<>>, parquet |-> <<>>, empty |-> FALSE, prov |-> <<>>]

\* pd.DataFrame(rows): the columns are the keys of all the rows, a row
\* without a key holds NaN there; a numeric column holding a None, a NaN or a
\* float becomes float64 (ints widen, None becomes NaN); other columns keep
\* their objects.
Columns(rs) == UNION {DOMAIN rs[i] : i \in DOMAIN rs}

ValueAt(r, f) == IF f \in DOMAIN r THEN r[f] ELSE NaNCell

ColKinds(rs, f) == {ValueAt(rs[i], f).t : i \in DOMAIN rs}

Widens(kinds) ==
  /\ kinds \subseteq {"int", "float", "none", "nan"}
  /\ kinds \cap {"int", "float", "nan"} # {}
  /\ kinds \cap {"float", "none", "nan"} # {}

DataFrameCell(c, kinds) ==
  IF Widens(kinds)
  THEN IF c.t = "int" THEN FloatCell(c.v)
       ELSE IF c.t = "none" THEN NaNCell ELSE c
  ELSE c

DataFrame(rs) ==
  [i \in DOMAIN rs |->
     [f \in Columns(rs) |-> DataFrameCell(ValueAt(rs[i], f), ColKinds(rs, f))]]

\* df.empty: no rows, or rows without any column
DfEmpty(df) == \/ Len(df) = 0
               \/ \A i \in DOMAIN df : DOMAIN df[i] = {}

\* df.to_csv(index=False): None and NaN are written as the empty field, every
\* other value as its text (kept here as the cell whose text it is: a string
\* of digits is written as the same text as the integer it spells).
EmptyField == [t |-> "empty", v |-> 0, s |-> ""]

CsvField(c) ==
  IF c.t \in {"none", "nan"} THEN EmptyField
  ELSE IF c = DigitStr(c.v) THEN IntCell(c.v)
  ELSE c

ToCsv(df) ==
  [i \in DOMAIN df |-> [f \in DOMAIN df[i] |-> CsvField(df[i][f])]]

\* pd.read_csv: per column, all integer texts parse to int64; integer, decimal
\* and empty texts to float64 with NaN; otherwise the column is of strings
\* with NaN for the empty fields.
ReadCsvCell(c, kinds) ==
  IF kinds \subseteq {"int"} THEN c
  ELSE IF kinds \subseteq {"int", "float", "empty"}
       THEN IF c.t = "empty" THEN NaNCell ELSE FloatCell(c.v)
       ELSE IF c.t = "empty" THEN NaNCell
            ELSE IF c.t = "str" THEN c ELSE StrCell("num", c.v)

ReadCsv(text) ==
  [i \in DOMAIN text |->
     [f \in DOMAIN text[i] |-> ReadCsvCell(text[i][f], ColKinds(text, f))]]

\* df.to_parquet / pd.read_parquet keep the frame's typed values.
ToParquet(df) == df
ReadParquet(content) == content

\* pd.concat(dfs, ignore_index=True) of frames with the same columns
Concat(dfs) ==
  LET RECURSIVE Cat(_)
      Cat(k) == IF k = 0 THEN <<>> ELSE Cat(k - 1) \o dfs[k]
  IN DataFrame(Cat(Len(dfs)))

\* part_path that also touches the _EMPTY marker of the directory it makes
PartPathMarks(f, p) == [f EXCEPT ![p].dir = TRUE, ![p].empty = TRUE]

\* part_path: p.mkdir(parents=True, exist_ok=True)
PartPath(f, p) == [f EXCEPT ![p].dir = TRUE]

Formats == {"csv", "parquet"}

\* write_rows: the exception it raises, "" when it returns (writing the
\* marker or the data file fails when outdir does not exist; an unsupported
\* fmt is looked at only when there are rows)
WriteRowsExc(f, p, rs, fmt) ==
  IF DfEmpty(DataFrame(rs)) \/ fmt \in Formats
  THEN (IF f[p].dir THEN "" ELSE "IOError")
  ELSE "ValueError"

\* write_rows: the store it leaves
WriteRows(f, p, rs, fmt) ==
  LET df == DataFrame(rs) IN
  IF ~f[p].dir THEN f
  ELSE IF DfEmpty(df) THEN [f EXCEPT ![p].empty = TRUE]
  ELSE IF fmt = "csv" THEN [f EXCEPT ![p].csv = <<ToCsv(df)>>]
  ELSE IF fmt = "parquet" THEN [f EXCEPT ![p].parquet = <<ToParquet(df)>>]
  ELSE f

\* write_provenance: open(outdir / name, "w"); json.dump(payload)
WriteProvenanceExc(f, p) == IF f[p].dir THEN "" ELSE "IOError"

WriteProvenanceKeep(f, p, payload) ==
  IF f[p].dir /\ f[p].prov = <<>> THEN [f EXCEPT ![p].prov = <<payload>>] ELSE f
WriteProvenance(f, p, payload) ==
  IF f[p].dir THEN [f EXCEPT ![p].prov = <<payload>>] ELSE f

\* the content of a data file another process has created and not finished
\* writing: pd.read_parquet and pd.read_csv raise on it
Truncated == <<[truncated |-> EmptyField]>>

Parses(content) == content # Truncated

\* read_any: the frame it returns from the files of the partition, the
\* *.parquet files before the *.csv files; a file whose read raises is skipped
ReadAnyFirst(f, p) ==
  IF f[p].parquet # <<>> /\ Parses(f[p].parquet[1]) THEN ReadParquet(f[p].parquet[1])
  ELSE IF f[p].csv # <<>> /\ Parses(f[p].csv[1]) THEN ReadCsv(f[p].csv[1])
  ELSE <<>>
ReadAny(f, p) ==
  LET dfs == (IF f[p].parquet # <<>> /\ Parses(f[p].parquet[1]) THEN <<ReadParquet(f[p].parquet[1])>> ELSE <<>>)
               \o (IF f[p].csv # <<>> /\ Parses(f[p].csv[1]) THEN <<ReadCsv(f[p].csv[1])>> ELSE <<>>)
  IN IF dfs = <<>> THEN <<>> ELSE Concat(dfs)

\* common/provenance.py: Provenance(...).to_dict()
Provenance(source, api_version, collector, chain_id, network, dataset, rs) ==
  [source |-> source, api_version |-> api_version, collector |-> collector,
   chain_id |-> chain_id, network |-> network, dataset |-> dataset,
   rows |-> rs, note |-> <<>>, schema_version |-> <<>>]


(***************************************************************************)
(* SpecStore: a caller of the store working on one raw partition.         *)
(***************************************************************************)
Partitions == {"raw/blocks"}
ThePart == "raw/blocks"

\* the rows a direct caller may hand to write_rows: Block rows as the eth2
\* collector builds them, one per key of a set of keys, in increasing order
SampleRow(k) ==
  Block("eth2", "mainnet", k, IntCell(k \div 32), NoneCell, NoneCell, IntCell(k), NoneCell, NoneCell)

RECURSIVE RowsOf(_)
RowsOf(K) ==
  IF K = {} THEN <<>>
  ELSE LET m == CHOOSE x \in K : \A y \in K : y <= x
       IN Append(RowsOf(K \ {m}), SampleRow(m))

RowLists == {RowsOf(K) : K \in SUBSET (0..MaxKey)}
AnyFormats == Formats \cup {"json"}

\* and Validator rows as the eth2 collector builds them (validator_id is
\* str(index)), for a partition of the validators table
SampleValidator(k) ==
  Validator("eth2", "mainnet", 0, DigitStr(k), StrCell("active_ongoing", 0), FloatCell(32), FloatCell(32), StrCell("pubkey", k))

RECURSIVE ValidatorsOf(_)
ValidatorsOf(K) ==
  IF K = {} THEN <<>>
  ELSE LET m == CHOOSE x \in K : \A y \in K : y <= x
       IN Append(ValidatorsOf(K \ {m}), SampleValidator(m))

ValidatorLists == {ValidatorsOf(K) : K \in SUBSET (0..MaxKey)}

\* the columns of the data files of a directory
FileColumns(d) ==
  {DOMAIN d.csv[i][1] : i \in {j \in DOMAIN d.csv : Parses(d.csv[j])}}
    \cup {DOMAIN d.parquet[i][1] : i \in {j \in DOMAIN d.parquet : Parses(d.parquet[j])}}

\* a partition belongs to one table: the rows written to it have the columns
\* of the data files it holds
SameTable(d, rs) == IF rs = <<>> THEN TRUE ELSE FileColumns(d) \subseteq {DOMAIN rs[1]}

\* no file in the directory
HasNoFiles(d) == d.csv = <<>> /\ d.parquet = <<>> /\ ~d.empty /\ d.prov = <<>>

\* the provenance payloads of a direct caller
Payloads ==
  LET P(n) == Provenance("src", "v2", "eth2.blocks", "eth2", "mainnet", "blocks", n)
  IN {P(n) : n \in 0..(MaxKey + 1)} \cup {[P(0) EXCEPT !.note = <<"rerun">>]}

RunIdle ==
  /\ cur = "" /\ phase = "idle" /\ todo = {} /\ inflight = {}
  /\ cursor = <<>> /\ served = <<>> /\ events = <<>>

CurIdle == kpc = "idle" /\ kexc = ""

FeatIdle == fpc = "idle" /\ fexc = "" /\ statsRows = <<>> /\ trustRows = <<>>

ClientIdle ==
  /\ api_key = "" /\ api_key_transport = "header" /\ rate_limit_seconds = 0
  /\ clientOp = "none" /\ clientArgs = <<>> /\ clientExc = ""
  /\ clientRet = <<>> /\ clientHeaders = <<>> /\ clientSent = <<>>

MethIdle ==
  /\ mds = "" /\ mpc = "idle" /\ mend = 0 /\ clock = 0 /\ now = <<>>
  /\ mitem = 0 /\ page_key = <<>> /\ mrows = <<>> /\ mlog = <<>> /\ mexc = ""

ArgIdle == start_arg = <<>> /\ end_arg = <<>> /\ lookback_arg = <<>>

PerfIdle == indexes = <<>> /\ answers = <<>> /\ ppc = "idle" /\ ppos = 0 /\ prows = <<>>

Threads == 1..MaxThreads

PaceIdle ==
  /\ monotonic = 0 /\ next_at = 0 /\ lock = 0
  /\ tpc = [t \in Threads |-> "idle"] /\ tnow = [t \in Threads |-> 0]
  /\ calls = [t \in Threads |-> 0] /\ starts = <<>>

RetryIdle == responses = <<>> /\ tries = 0 /\ slept = <<>>

RestIdle == MethIdle /\ ArgIdle /\ PerfIdle /\ session = 0 /\ PaceIdle /\ RetryIdle

SideIdle == CurIdle /\ FeatIdle /\ ClientIdle /\ RestIdle

HttpIdle ==
  /\ hpc = "idle" /\ attempt = 0 /\ delay = 0
  /\ requests = <<>> /\ sleeps = <<>> /\ raised = <<>>

CollIdle ==
  /\ chain = "eth2" /\ format = "parquet" /\ max_workers = 1
  /\ fs0 = fs /\ datasets = {}
  /\ cpc = "idle" /\ explicit = FALSE /\ head = <<>> /\ win = <<>>
  /\ nextItem = 0 /\ task = <<>> /\ rows = <<>> /\ fetchLog = <<>> /\ cexc = <<>>

StoreInit ==
  /\ fs = [p \in Partitions |-> NoDir]
  /\ storeOp = "none" /\ storeExc = "" /\ storeFmt = "" /\ storeRet = <<>>
  /\ lastRows = <<>> /\ wroteFresh = FALSE /\ lastProv = <<>>

StorePartPath ==
  /\ fs' = PartPath(fs, ThePart)
  /\ storeOp' = "part_path" /\ storeExc' = "" /\ storeFmt' = "" /\ storeRet' = <<>>
  /\ UNCHANGED <<lastRows, wroteFresh, lastProv, httpVars, collVars, otherVars>>

StoreWriteRows ==
  \E rs \in RowLists \cup ValidatorLists, fmt \in AnyFormats :
    /\ SameTable(fs[ThePart], rs)
    /\ fs' = WriteRows(fs, ThePart, rs, fmt)
    /\ storeOp' = "write_rows" /\ storeFmt' = fmt /\ storeRet' = <<>>
    /\ storeExc' = WriteRowsExc(fs, ThePart, rs, fmt)
    /\ lastRows' = IF storeExc' = "" THEN <<rs>> ELSE lastRows
    /\ wroteFresh' = IF storeExc' = "" THEN HasNoFiles(fs[ThePart]) ELSE wroteFresh
    /\ UNCHANGED <<lastProv, httpVars, collVars, otherVars>>

StoreWriteProvenance ==
  \E payload \in Payloads :
    /\ fs' = WriteProvenance(fs, ThePart, payload)
    /\ storeOp' = "write_provenance" /\ storeFmt' = "" /\ storeRet' = <<>>
    /\ storeExc' = WriteProvenanceExc(fs, ThePart)
    /\ lastProv' = IF storeExc' = ""
                   THEN <<[payload |-> payload, replaced |-> fs[ThePart].prov \notin {<<>>, <<payload>>}]>>
                   ELSE lastProv
    /\ UNCHANGED <<lastRows, wroteFresh, httpVars, collVars, otherVars>>

StoreReadAny ==
  /\ fs' = PartPath(fs, ThePart)
  /\ storeRet' = ReadAny(fs', ThePart)
  /\ storeOp' = "read_any" /\ storeExc' = "" /\ storeFmt' = ""
  /\ UNCHANGED <<lastRows, wroteFresh, lastProv, httpVars, collVars, otherVars>>

StoreNext ==
  \/ StorePartPath
  \/ StoreWriteRows
  \/ StoreWriteProvenance
  \/ StoreReadAny

StoreSpecInit == StoreInit /\ HttpIdle /\ CollIdle /\ RunIdle /\ SideIdle

SpecStore == StoreSpecInit /\ [][StoreNext]_vars

(***************************************************************************)
(* SpecShared: a caller that writes and reads the data files of a          *)
(* partition, and another process that writes to the same directory.      *)
(***************************************************************************)
\* the other process has created a data file and not finished writing it
StoreOtherWriter ==
  /\ fs[ThePart].dir
  /\ \/ fs' = [fs EXCEPT ![ThePart].csv = <<Truncated>>]
     \/ fs' = [fs EXCEPT ![ThePart].parquet = <<Truncated>>]
  /\ storeOp' = "other_writer" /\ storeExc' = "" /\ storeFmt' = "" /\ storeRet' = <<>>
  /\ UNCHANGED <<lastRows, wroteFresh, lastProv, httpVars, collVars, otherVars>>

SharedInit == StoreInit /\ HttpIdle /\ CollIdle /\ RunIdle /\ SideIdle

SharedNext ==
  \/ StorePartPath
  \/ StoreWriteRows
  \/ StoreReadAny
  \/ StoreOtherWriter

SpecShared == SharedInit /\ [][SharedNext]_vars

(***************************************************************************)
(* common/http.py: get_json.  Durations are in milliseconds.               *)
(***************************************************************************)
MAX_ATTEMPTS == 5
INITIAL_DELAY == 500
MAX_DELAY == 8000

Min(a, b) == IF a <= b THEN a ELSE b
Max(a, b) == IF a >= b THEN a ELSE b

\* the exceptions the try block may raise: a connection error from
\* _session.get, an HTTPError from raise_for_status, a ValueError from json()
ExcKinds == 1..NumExcKinds

\* the outcome of one request: a parsed body, or an exception object
\* (its kind, and n, the attempt that raised it: two attempts never raise
\* the same object)
OkOutcome(n) == [ok |-> TRUE, kind |-> 0, n |-> n]
ExcOutcome(k, n) == [ok |-> FALSE, kind |-> k, n |-> n]

\* "if attempt >= _MAX_ATTEMPTS"
ExhaustedOff(att) == att > MAX_ATTEMPTS
Exhausted(att) == att >= MAX_ATTEMPTS

\* random.uniform(0, delay): its two ends and its middle
Jitter(d) == {0, d \div 2, d}

\* "sleep_time = delay + random.uniform(0, delay)"
SleepTimesWide(d) == {d + j + j : j \in Jitter(d)}
SleepTimes(d) == {d + j : j \in Jitter(d)}

\* "delay = min(delay * 2, _MAX_DELAY)"
NextDelay(d) == Min(d * 2, MAX_DELAY)

\* the bare "raise" of the except clause: the exception being handled
ReraisedFirst(reqs) == reqs[1]
Reraised(reqs) == reqs[Len(reqs)]

\* a caller enters get_json: "attempt = 0; delay = _INITIAL_DELAY"
HttpCall ==
  /\ hpc \in {"idle", "returned", "raised"}
  /\ hpc' = "request"
  /\ attempt' = 0 /\ delay' = INITIAL_DELAY
  /\ requests' = <<>> /\ sleeps' = <<>> /\ raised' = <<>>
  /\ UNCHANGED <<storeVars, collVars, otherVars>>

\* one pass of the loop whose request succeeds: "return response.json()"
HttpAttemptOk ==
  /\ hpc = "request"
  /\ requests' = Append(requests, OkOutcome(Len(requests) + 1))
  /\ hpc' = "returned"
  /\ UNCHANGED <<attempt, delay, sleeps, raised, storeVars, collVars, otherVars>>

\* one pass whose request raises with attempts left: sleep, double the delay
HttpAttemptRetry ==
  /\ hpc = "request"
  /\ ~Exhausted(attempt + 1)
  /\ \E k \in ExcKinds, t \in SleepTimes(delay) :
       /\ requests' = Append(requests, ExcOutcome(k, Len(requests) + 1))
       /\ sleeps' = Append(sleeps, t)
  /\ attempt' = attempt + 1
  /\ delay' = NextDelay(delay)
  /\ UNCHANGED <<hpc, raised, storeVars, collVars, otherVars>>

\* one pass whose request raises with no attempt left: "raise"
HttpAttemptExhausted ==
  /\ hpc = "request"
  /\ Exhausted(attempt + 1)
  /\ \E k \in ExcKinds :
       requests' = Append(requests, ExcOutcome(k, Len(requests) + 1))
  /\ attempt' = attempt + 1
  /\ raised' = <<Reraised(requests')>>
  /\ hpc' = "raised"
  /\ UNCHANGED <<delay, sleeps, storeVars, collVars, otherVars>>

HttpAttempt == HttpAttemptOk \/ HttpAttemptRetry \/ HttpAttemptExhausted

HttpNext ==
  \/ HttpCall
  \/ HttpAttemptOk
  \/ HttpAttemptRetry
  \/ HttpAttemptExhausted

HttpInit == StoreInit /\ HttpIdle /\ CollIdle /\ RunIdle /\ SideIdle

SpecHttp == HttpInit /\ [][HttpNext]_vars

(***************************************************************************)
(* collectors/eth2.py, collectors/cosmos.py, collectors/polkadot.py        *)
(***************************************************************************)
Chains == {"eth2", "cosmos", "polkadot"}

\* cfg.get("network", ...) of each __init__
Network(c) == IF c = "cosmos" THEN "cosmoshub" ELSE "mainnet"

\* self.base / self.rpc
Source(c) ==
  IF c = "eth2" THEN "http://localhost:5052"
  ELSE IF c = "cosmos" THEN "http://localhost:1317" ELSE "wss://rpc.polkadot.io"

\* collector= of the blocks provenance
CollectorName(c) ==
  IF c = "eth2" THEN "eth2.blocks"
  ELSE IF c = "cosmos" THEN "cosmos.blocks" ELSE "polkadot.blocks"

\* api_version of the blocks provenance
ApiVersion(c) == IF c = "eth2" THEN "v2" ELSE IF c = "cosmos" THEN "v1beta1" ELSE "rpc"

\* "int(lookback_slots or 512)", "int(lookback_blocks or 2000)", "... or 1024"
ETH2_LOOKBACK == 512
COSMOS_LOOKBACK == 2000
POLKADOT_LOOKBACK == 1024

DefaultLookback(c) ==
  IF c = "eth2" THEN ETH2_LOOKBACK
  ELSE IF c = "cosmos" THEN COSMOS_LOOKBACK ELSE POLKADOT_LOOKBACK

\* "lookback or default": None and 0 are falsy
Lookback(c, lb) == IF lb = <<>> \/ lb[1] = 0 THEN DefaultLookback(c) ELSE lb[1]

\* the floor of "max(0, ...)" (eth2) and "max(1, ...)" (cosmos, polkadot)
Floor(c) == IF c = "eth2" THEN 0 ELSE 1

\* "start, end = max(floor, head - lb + 1), head"
LookbackWindow(c, hd, lb) ==
  [start |-> Max(Floor(c), hd - Lookback(c, lb) + 1), end |-> hd]

\* "if end < start: raise ValueError"
InvalidRangeLax(w) == FALSE
InvalidRange(w) == w.end < w.start

\* "range(start, end + 1)"
WindowItemsShort(w) == w.start..(w.end - 1)
WindowItems(w) == w.start..w.end

\* the outcomes of one item's fetch: a mapped row; an exception inside the
\* try block (get_json raising after its retries, or a payload that does not
\* map); for polkadot also get_block_hash returning None
Outcomes(c) == IF c = "polkadot" THEN {"ok", "fail", "nohash"} ELSE {"ok", "fail"}

\* fetch_block / the body of polkadot's loop: the row of height h, from the
\* payload the source serves for h
BlockRow(c, h) ==
  IF c = "eth2"
  THEN Block(c, Network(c), h, IntCell(h \div 32), NoneCell, NoneCell, IntCell(h), NoneCell, NoneCell)
  ELSE IF c = "cosmos"
  THEN Block(c, Network(c), h, NoneCell, StrCell("hash", h), NoneCell, NoneCell, StrCell("addr", h), IntCell(h))
  ELSE Block(c, Network(c), h, NoneCell, StrCell("hash", h), StrCell("hash", h - 1), NoneCell, NoneCell, IntCell(h))

\* what fetch_block returns: the row, or None (<<>>)
FetchBlock(c, h, outcome) == IF outcome = "ok" THEN <<BlockRow(c, h)>> ELSE <<>>

\* "if res is not None: rows.append(res)"
AppendResultReset(rs, res) == IF res = <<>> THEN <<>> ELSE Append(rs, res[1])
AppendResult(rs, res) == IF res = <<>> THEN rs ELSE Append(rs, res[1])

\* "rows=len(rows)" of the provenance record
ProvRowsTotal(rs, w) == w.end - w.start + 1
ProvRows(rs, w) == Len(rs)

\* "_session.get(url, ...)" in get_json: every call of a task or of the
\* calling thread goes through the one session of the module and changes it
\* (the polkadot collector talks to its node through SubstrateInterface)
SessionKept(c, s) == s
SessionAfter(c, s) == IF c = "polkadot" THEN s ELSE s + 1

\* "if self.max_workers > 1" (polkadot has no pooled branch)
PooledAny(c, mw) == mw > 1
PooledAlways(c, mw) == c # "polkadot"
Pooled(c, mw) == c # "polkadot" /\ mw > 1

NewTask == [st |-> "new", out |-> ""]

\* the fetches of the window's items issued so far
ItemFetch(h) == [ep |-> "block", h |-> h]
HeadFetch == [ep |-> "head", h |-> 0]

\* entering _blocks (or returning, when "blocks" is not requested) once the
\* window is resolved
Enter(w, ds) ==
  IF InvalidRange(w)
  THEN /\ cpc' = "raised" /\ cexc' = <<[type |-> "ValueError", at |-> "collect"]>>
       /\ UNCHANGED <<nextItem, task, rows>>
  ELSE /\ cexc' = <<>>
       /\ rows' = <<>>
       /\ nextItem' = w.start
       /\ task' = [h \in WindowItems(w) |-> NewTask]
       /\ cpc' = IF "blocks" \notin ds THEN "done"
                 ELSE IF Pooled(chain, max_workers) THEN "submit" ELSE "seq"

DatasetChoices == {{}, {"blocks"}}

\* collect called with both bounds: they are taken literally ("int(start)",
\* "int(end)"), a negative start included
CollectExplicit ==
  /\ cpc = "idle"
  /\ \E s \in (0 - 1)..MaxHeight, e \in 0..MaxHeight, ds \in DatasetChoices :
       /\ datasets' = ds
       /\ explicit' = TRUE
       /\ head' = <<>>
       /\ win' = <<[start |-> s, end |-> e]>>
       /\ fetchLog' = <<>>
       /\ Enter([start |-> s, end |-> e], ds)
  /\ UNCHANGED <<chain, format, max_workers, fs0, storeVars, httpVars, otherVars>>

\* collect called with a bound missing: the head is queried and answers
CollectLookback ==
  /\ cpc = "idle"
  /\ \E hd \in 0..MaxHeight, lb \in {<<>>} \cup {<<n>> : n \in (0 - 1)..MaxLookback}, ds \in DatasetChoices :
       /\ datasets' = ds
       /\ explicit' = FALSE
       /\ head' = <<hd>>
       /\ win' = <<LookbackWindow(chain, hd, lb)>>
       /\ fetchLog' = <<HeadFetch>>
       /\ Enter(LookbackWindow(chain, hd, lb), ds)
  /\ session' = SessionAfter(chain, session)
  /\ UNCHANGED <<chain, format, max_workers, fs0, storeVars, httpVars, otherButSession>>

\* collect called with a bound missing: the head query raises
CollectHeadFails ==
  /\ cpc = "idle"
  /\ \E ds \in DatasetChoices : datasets' = ds
  /\ explicit' = FALSE
  /\ fetchLog' = <<HeadFetch>>
  /\ cpc' = "raised" /\ cexc' = <<[type |-> "RequestException", at |-> "head"]>>
  /\ session' = SessionAfter(chain, session)
  /\ UNCHANGED <<chain, format, max_workers, fs0, head, win, nextItem, task, rows, storeVars, httpVars, otherButSession>>

\* one pass of the sequential loop: fetch the next item, keep its row
SeqFetch ==
  /\ cpc = "seq"
  /\ nextItem \in WindowItems(win[1])
  /\ \E o \in Outcomes(chain) :
       /\ task' = [task EXCEPT ![nextItem] = [st |-> "consumed", out |-> o]]
       /\ rows' = AppendResult(rows, FetchBlock(chain, nextItem, o))
  /\ fetchLog' = Append(fetchLog, ItemFetch(nextItem))
  /\ nextItem' = nextItem + 1
  /\ session' = SessionAfter(chain, session)
  /\ UNCHANGED <<chain, format, max_workers, fs0, datasets, cpc, explicit, head, win, cexc, storeVars, httpVars, otherButSession>>

\* "executor.submit(fetch_block, slot)" for the next item of the window;
\* after the last one the caller turns to as_completed
PoolSubmit ==
  /\ cpc = "submit"
  /\ nextItem \in WindowItems(win[1])
  /\ task' = [task EXCEPT ![nextItem].st = "queued"]
  /\ nextItem' = nextItem + 1
  /\ cpc' = IF nextItem + 1 \in WindowItems(win[1]) THEN "submit" ELSE "drain"
  /\ UNCHANGED <<chain, format, max_workers, fs0, datasets, explicit, head, win, rows, fetchLog, cexc, storeVars, httpVars, otherVars>>

Running == {h \in DOMAIN task : task[h].st = "running"}
Queued == {h \in DOMAIN task : task[h].st = "queued"}

\* ThreadPoolExecutor(max_workers=...): a work item is taken only by one of
\* the max_workers threads of the pool, each running one item at a time
WorkerFreeAlways(running, mw) == TRUE
WorkerFree(running, mw) == Cardinality(running) < mw

\* a free worker thread takes the oldest queued work item
WorkerStart ==
  /\ cpc \in {"submit", "drain"}
  /\ WorkerFree(Running, max_workers)
  /\ Queued # {}
  /\ LET h == CHOOSE x \in Queued : \A y \in Queued : x <= y
     IN /\ task' = [task EXCEPT ![h].st = "running"]
        /\ fetchLog' = Append(fetchLog, ItemFetch(h))
  /\ session' = SessionAfter(chain, session)
  /\ UNCHANGED <<chain, format, max_workers, fs0, datasets, cpc, explicit, head, win, nextItem, rows, cexc, storeVars, httpVars, otherButSession>>

\* what fetch_block does to the list "rows" of _blocks: nothing, it hands
\* its row back with "return" and the future holds it
WorkerRowsAppend(rs, res) == IF res = <<>> THEN rs ELSE Append(rs, res[1])
WorkerRows(rs, res) == rs

\* a worker's fetch_block returns: its future is done
WorkerFinish ==
  /\ cpc \in {"submit", "drain"}
  /\ \E h \in Running, o \in Outcomes(chain) :
       /\ task' = [task EXCEPT ![h] = [st |-> "done", out |-> o]]
       /\ rows' = WorkerRows(rows, FetchBlock(chain, h, o))
  /\ UNCHANGED <<chain, format, max_workers, fs0, datasets, cpc, explicit, head, win, nextItem, fetchLog, cexc, storeVars, httpVars, otherVars>>

\* one pass of "for future in as_completed(futures)": any future that is
\* done and not yet yielded
PoolDrain ==
  /\ cpc = "drain"
  /\ \E h \in DOMAIN task :
       /\ task[h].st = "done"
       /\ task' = [task EXCEPT ![h].st = "consumed"]
       /\ rows' = AppendResult(rows, FetchBlock(chain, h, task[h].out))
  /\ UNCHANGED <<chain, format, max_workers, fs0, datasets, cpc, explicit, head, win, nextItem, fetchLog, cexc, storeVars, httpVars, otherVars>>

\* the "with ThreadPoolExecutor" block and its as_completed loop are left
\* once every future was yielded
DrainedFirst(t) == \E h \in DOMAIN t : t[h].st = "consumed"
Drained(t) == \A h \in DOMAIN t : t[h].st = "consumed"

AllConsumed == Drained(task)

\* the loop is over: "out = part_path(...); write_rows(rows, out, self.format)"
BlocksWrite ==
  /\ cpc \in {"seq", "drain"}
  /\ AllConsumed
  /\ LET made == PartPath(fs, ThePart)
         exc == WriteRowsExc(made, ThePart, rows, format)
     IN /\ fs' = WriteRows(made, ThePart, rows, format)
        /\ cpc' = IF exc = "" THEN "prov" ELSE "raised"
        /\ cexc' = IF exc = "" THEN <<>> ELSE <<[type |-> exc, at |-> "write_rows"]>>
  /\ UNCHANGED <<chain, format, max_workers, fs0, datasets, explicit, head, win, nextItem, task, rows, fetchLog, storeHist, httpVars, otherVars>>

\* "write_provenance(out, Provenance(..., rows=len(rows)).to_dict())"
BlocksProvenance ==
  /\ cpc = "prov"
  /\ fs' = WriteProvenance(fs, ThePart, Provenance(Source(chain), ApiVersion(chain), CollectorName(chain), chain, Network(chain), "blocks", ProvRows(rows, win[1])))
  /\ cpc' = "done"
  /\ UNCHANGED <<chain, format, max_workers, fs0, datasets, explicit, head, win, nextItem, task, rows, fetchLog, cexc, storeHist, httpVars, otherVars>>

\* what an earlier collection of the same date left in the partition: two
\* rows and their provenance, written as csv
EarlierRun(c) ==
  LET made == PartPath([p \in Partitions |-> NoDir], ThePart)
      old == <<BlockRow(c, 1), BlockRow(c, 2)>>
  IN WriteProvenance(WriteRows(made, ThePart, old, "csv"), ThePart, Provenance(Source(c), ApiVersion(c), CollectorName(c), c, Network(c), "blocks", Len(old)))

CollectInit ==
  /\ chain \in Chains
  /\ format \in AnyFormats
  /\ max_workers \in 1..MaxWorkers
  /\ fs \in {[p \in Partitions |-> NoDir], EarlierRun(chain)}
  /\ fs0 = fs /\ datasets = {}
  /\ storeOp = "none" /\ storeExc = "" /\ storeFmt = "" /\ storeRet = <<>> /\ lastRows = <<>>
  /\ wroteFresh = FALSE /\ lastProv = <<>>
  /\ cur = "" /\ phase = "idle" /\ todo = {} /\ inflight = {}
  /\ cursor = <<>> /\ served = <<>> /\ events = <<>>
  /\ SideIdle
  /\ hpc = "idle" /\ attempt = 0 /\ delay = 0
  /\ requests = <<>> /\ sleeps = <<>> /\ raised = <<>>
  /\ cpc = "idle" /\ explicit = FALSE /\ head = <<>> /\ win = <<>>
  /\ nextItem = 0 /\ task = <<>> /\ rows = <<>> /\ fetchLog = <<>> /\ cexc = <<>>

CollectNext ==
  \/ CollectExplicit
  \/ CollectLookback
  \/ CollectHeadFails
  \/ SeqFetch
  \/ PoolSubmit
  \/ WorkerStart
  \/ WorkerFinish
  \/ PoolDrain
  \/ BlocksWrite
  \/ BlocksProvenance

SpecCollect == CollectInit /\ [][CollectNext]_vars

(***************************************************************************)
(* collect over all its datasets: the dispatch of collect and the dataset   *)
(* methods of the three collectors, each a fetch loop followed by           *)
(* part_path, write_rows and write_provenance.                              *)
(***************************************************************************)
AllDatasets == {"blocks", "validators", "attestations", "penalties"}

\* the "if ... in datasets" chain of collect, in its order; the polkadot
\* collector has no attestations branch
DispatchAll(c) == <<"blocks", "validators", "attestations", "penalties">>
Dispatch(c) ==
  IF c = "polkadot" THEN <<"blocks", "validators", "penalties">>
  ELSE <<"blocks", "validators", "attestations", "penalties">>

\* the first method collect calls after the k-th branch of the chain
\* (0: none is left)
NextBranch(c, ds, k) ==
  LET later == {i \in DOMAIN Dispatch(c) : i > k /\ Dispatch(c)[i] \in ds}
  IN IF later = {} THEN 0 ELSE CHOOSE i \in later : \A j \in later : i <= j

BranchOf(c, d) == CHOOSE i \in DOMAIN Dispatch(c) : Dispatch(c)[i] = d

\* how a dataset method fetches: one fetch per item of the window, one
\* fetch of the whole listing, or one fetch per page of a paginated listing
Kind(c, d) ==
  IF d = "validators" THEN (IF c = "cosmos" THEN "paged" ELSE "single")
  ELSE IF d = "penalties" /\ c = "cosmos" THEN "paged"
  ELSE "window"

\* the window methods that have an "if self.max_workers > 1" branch
PooledMethod(c, d, mw) ==
  /\ Kind(c, d) = "window" /\ mw > 1
  /\ \/ c = "eth2"
     \/ c = "cosmos" /\ d \in {"blocks", "attestations"}

RawPart(d) == "raw/" \o d
RawParts == {RawPart(d) : d \in AllDatasets}

\* the row a method builds from the payload of item (height, slot, list
\* entry) k
ValidatorRow(c, k) ==
  IF c = "eth2"
  THEN Validator(c, Network(c), 0, DigitStr(k), StrCell("active_ongoing", 0), FloatCell(32), FloatCell(32), StrCell("pubkey", k))
  ELSE IF c = "cosmos"
  THEN Validator(c, Network(c), 0, StrCell("operator_address", k), StrCell("BONDED", 0), NoneCell, NoneCell, StrCell("key", k))
  ELSE Validator(c, Network(c), 0, StrCell("ss58", k), StrCell("ACTIVE", 0), NoneCell, NoneCell, NoneCell)

AttestationRow(c, h) ==
  IF c = "eth2"
  THEN Attestation(c, Network(c), h, IntCell(h \div 32), IntCell(0), StrCell("root", h), IntCell(0), IntCell(0))
  ELSE Attestation(c, Network(c), h, NoneCell, NoneCell, StrCell("hash", h), NoneCell, NoneCell)

PenaltyRow(c, k) ==
  IF c = "eth2"
  THEN Penalty(c, Network(c), k, NoneCell, StrCell("proposer_slashing", 0), NoneCell, StrCell("json", k))
  ELSE IF c = "cosmos"
  THEN Penalty(c, Network(c), 0, StrCell("address", k), StrCell("signing_info", 0), NoneCell, StrCell("json", k))
  ELSE Penalty(c, Network(c), k, NoneCell, StrCell("staking_slash", 0), NoneCell, StrCell("json", k))

DatasetRow(c, d, k) ==
  IF d = "blocks" THEN BlockRow(c, k)
  ELSE IF d = "validators" THEN ValidatorRow(c, k)
  ELSE IF d = "attestations" THEN AttestationRow(c, k)
  ELSE PenaltyRow(c, k)

\* what one fetch of a method yields for item k: its row, or nothing (the
\* fetch raised, or the payload held no entry)
FetchRows(c, d, k, outcome) == IF outcome = "ok" THEN <<DatasetRow(c, d, k)>> ELSE <<>>

\* "if res: rows.extend(res)" / "if res is not None: rows.append(res)"
ExtendRows(rs, res) == rs \o res

\* api_version= and collector= of a method's provenance record
MethodApiVersion(c, d) ==
  IF c = "eth2" THEN (IF d = "validators" THEN "v1" ELSE "v2")
  ELSE IF c = "cosmos" THEN "v1beta1" ELSE "rpc"

MethodCollector(c, d) == c \o "." \o d

MethodProvenance(c, d, rs) ==
  Provenance(Source(c), MethodApiVersion(c, d), MethodCollector(c, d), c, Network(c), d, Len(rs))

\* the log of a call: its fetches (arg: the item, or the cursor the page
\* request carried, 0 for none) and its store writes
Event(op, d, arg) == [op |-> op, ds |-> d, arg |-> arg]

\* a page of a paginated listing: the cursor its request carried, and the
\* next_key it returned (both optional)
Page(key, next) == [key |-> key, next |-> next]

\* the entry the page requested with cursor key holds
PageItem(key) == IF key = <<>> THEN 1 ELSE key[1]

\* "page_key = (data.get('pagination') or {}).get('next_key')"
NextCursorStuck(page) == page.key
NextCursor(page) == page.next

\* the fetch loop of a window method is over: every item was fetched and,
\* with a pool, every future was consumed (the executor block was left)
LoopOverEarly(t, f) == f = {}
LoopOver(t, f) == t = {} /\ f = {}

\* entering the method of branch k (0: collect returns) with window w
EnterMethod(k, w) ==
  IF k = 0
  THEN /\ cur' = "" /\ phase' = "done"
       /\ UNCHANGED <<todo, inflight, cursor, served, rows>>
  ELSE /\ cur' = Dispatch(chain)[k]
       /\ phase' = "fetch"
       /\ rows' = <<>>
       /\ todo' = IF Kind(chain, Dispatch(chain)[k]) = "window" THEN WindowItems(w) ELSE {}
       /\ inflight' = {}
       /\ cursor' = <<>>
       /\ served' = <<>>

RunDatasetChoices == SUBSET AllDatasets

\* collect(datasets, date, start, end) with both bounds given
RunCollect ==
  /\ phase = "idle"
  /\ \E e \in 1..MaxRunItems, ds \in RunDatasetChoices :
       /\ datasets' = ds
       /\ explicit' = TRUE
       /\ win' = <<[start |-> 1, end |-> e]>>
       /\ EnterMethod(NextBranch(chain, ds, 0), [start |-> 1, end |-> e])
  /\ events' = <<>>
  /\ cexc' = <<>>
  /\ UNCHANGED <<chain, format, max_workers, fs0, cpc, head, nextItem, task, fetchLog, storeVars, httpVars, sideVars>>

\* one pass of a sequential window loop
RunSeqFetch ==
  /\ phase = "fetch" /\ Kind(chain, cur) = "window"
  /\ ~PooledMethod(chain, cur, max_workers)
  /\ todo # {}
  /\ LET h == CHOOSE x \in todo : \A y \in todo : x <= y
     IN /\ \E o \in {"ok", "none"} : rows' = ExtendRows(rows, FetchRows(chain, cur, h, o))
        /\ events' = Append(events, Event("fetch", cur, h))
        /\ todo' = todo \ {h}
  /\ UNCHANGED <<cur, phase, inflight, cursor, served>>
  /\ session' = SessionAfter(chain, session)
  /\ UNCHANGED <<chain, format, max_workers, fs0, datasets, cpc, explicit, head, win, nextItem, task, fetchLog, cexc, storeVars, httpVars, sideButSession>>

\* a worker of the pool takes the oldest submitted item and issues its fetch
RunPoolFetch ==
  /\ phase = "fetch" /\ PooledMethod(chain, cur, max_workers)
  /\ todo # {}
  /\ Cardinality(inflight) < max_workers
  /\ LET h == CHOOSE x \in todo : \A y \in todo : x <= y
     IN /\ events' = Append(events, Event("fetch", cur, h))
        /\ todo' = todo \ {h}
        /\ inflight' = inflight \cup {h}
  /\ UNCHANGED <<cur, phase, cursor, served, rows>>
  /\ session' = SessionAfter(chain, session)
  /\ UNCHANGED <<chain, format, max_workers, fs0, datasets, cpc, explicit, head, win, nextItem, task, fetchLog, cexc, storeVars, httpVars, sideButSession>>

\* a fetch in flight returns and as_completed yields its future
RunPoolConsume ==
  /\ phase = "fetch" /\ PooledMethod(chain, cur, max_workers)
  /\ \E h \in inflight, o \in {"ok", "none"} :
       /\ rows' = ExtendRows(rows, FetchRows(chain, cur, h, o))
       /\ inflight' = inflight \ {h}
  /\ UNCHANGED <<cur, phase, todo, cursor, served, events>>
  /\ UNCHANGED <<chain, format, max_workers, fs0, datasets, cpc, explicit, head, win, nextItem, task, fetchLog, cexc, storeVars, httpVars, sideVars>>

\* the one fetch of a whole listing (eth2 and polkadot validators)
RunSingleFetch ==
  /\ phase = "fetch" /\ Kind(chain, cur) = "single"
  /\ \E o \in {"ok", "none"} : rows' = ExtendRows(rows, FetchRows(chain, cur, 1, o))
  /\ events' = Append(events, Event("fetch", cur, 0))
  /\ phase' = "write"
  /\ UNCHANGED <<cur, todo, inflight, cursor, served>>
  /\ session' = SessionAfter(chain, session)
  /\ UNCHANGED <<chain, format, max_workers, fs0, datasets, cpc, explicit, head, win, nextItem, task, fetchLog, cexc, storeVars, httpVars, sideButSession>>

\* one pass of the pagination loop whose request succeeds: the page's rows
\* are kept and its next_key becomes the cursor; without one the loop breaks
RunPageFetch ==
  /\ phase = "fetch" /\ Kind(chain, cur) = "paged"
  /\ \E next \in {<<>>} \cup {<<k>> : k \in {PageItem(cursor) + 1} \cap (1..MaxPages)} :
       LET page == Page(cursor, next)
       IN /\ served' = Append(served, page)
          /\ rows' = ExtendRows(rows, FetchRows(chain, cur, PageItem(page.key), "ok"))
          /\ cursor' = NextCursor(page)
          /\ phase' = IF NextCursor(page) = <<>> THEN "write" ELSE "fetch"
  /\ events' = Append(events, Event("fetch", cur, IF cursor = <<>> THEN 0 ELSE cursor[1]))
  /\ UNCHANGED <<cur, todo, inflight>>
  /\ session' = SessionAfter(chain, session)
  /\ UNCHANGED <<chain, format, max_workers, fs0, datasets, cpc, explicit, head, win, nextItem, task, fetchLog, cexc, storeVars, httpVars, sideButSession>>

\* one pass of the pagination loop whose request raises: "break"
RunPageFails ==
  /\ phase = "fetch" /\ Kind(chain, cur) = "paged"
  /\ events' = Append(events, Event("fetch", cur, IF cursor = <<>> THEN 0 ELSE cursor[1]))
  /\ phase' = "write"
  /\ UNCHANGED <<cur, todo, inflight, cursor, served, rows>>
  /\ session' = SessionAfter(chain, session)
  /\ UNCHANGED <<chain, format, max_workers, fs0, datasets, cpc, explicit, head, win, nextItem, task, fetchLog, cexc, storeVars, httpVars, sideButSession>>

\* "out = part_path(...); write_rows(rows, out, self.format)"
RunWriteRows ==
  /\ \/ phase = "write"
     \/ phase = "fetch" /\ Kind(chain, cur) = "window" /\ LoopOver(todo, inflight)
  /\ LET made == PartPath(fs, RawPart(cur))
         exc == WriteRowsExc(made, RawPart(cur), rows, format)
     IN /\ fs' = WriteRows(made, RawPart(cur), rows, format)
        /\ phase' = IF exc = "" THEN "prov" ELSE "raised"
        /\ cexc' = IF exc = "" THEN <<>> ELSE <<[type |-> exc, at |-> "write_rows"]>>
        /\ events' = IF exc = "" THEN Append(events, Event("write_rows", cur, Len(rows))) ELSE events
  /\ UNCHANGED <<cur, todo, inflight, cursor, served>>
  /\ UNCHANGED <<chain, format, max_workers, fs0, datasets, cpc, explicit, head, win, nextItem, task, rows, fetchLog, storeHist, httpVars, sideVars>>

\* "write_provenance(out, Provenance(...).to_dict())", then the method
\* returns and collect goes on to its next branch
RunWriteProvenance ==
  /\ phase = "prov"
  /\ fs' = WriteProvenance(fs, RawPart(cur), MethodProvenance(chain, cur, rows))
  /\ events' = Append(events, Event("write_provenance", cur, Len(rows)))
  /\ EnterMethod(NextBranch(chain, datasets, BranchOf(chain, cur)), win[1])
  /\ UNCHANGED <<chain, format, max_workers, fs0, datasets, cpc, explicit, head, win, nextItem, task, fetchLog, cexc, storeHist, httpVars, sideVars>>

RunInit ==
  /\ chain \in Chains
  /\ format \in {"parquet", "json"}
  /\ max_workers \in 1..MaxWorkers
  /\ fs = [p \in RawParts |-> NoDir]
  /\ fs0 = fs /\ datasets = {}
  /\ storeOp = "none" /\ storeExc = "" /\ storeFmt = "" /\ storeRet = <<>> /\ lastRows = <<>>
  /\ wroteFresh = FALSE /\ lastProv = <<>>
  /\ hpc = "idle" /\ attempt = 0 /\ delay = 0
  /\ requests = <<>> /\ sleeps = <<>> /\ raised = <<>>
  /\ cpc = "idle" /\ explicit = FALSE /\ head = <<>> /\ win = <<>>
  /\ nextItem = 0 /\ task = <<>> /\ rows = <<>> /\ fetchLog = <<>> /\ cexc = <<>>
  /\ cur = "" /\ phase = "idle" /\ todo = {} /\ inflight = {}
  /\ cursor = <<>> /\ served = <<>> /\ events = <<>>
  /\ SideIdle

RunNext ==
  \/ RunCollect
  \/ RunSeqFetch
  \/ RunPoolFetch
  \/ RunPoolConsume
  \/ RunSingleFetch
  \/ RunPageFetch
  \/ RunPageFails
  \/ RunWriteRows
  \/ RunWriteProvenance

SpecRun == RunInit /\ [][RunNext]_vars

(***************************************************************************)
(* cli.py "curate" and curators/common.py                                  *)
(***************************************************************************)
\* the names common/storage.py defines
StorageNames == {"part_path", "write_rows", "write_provenance", "read_any"}

\* "from common.storage import ensure_dir, part_path, write_rows"
CuratorImports == {"ensure_dir", "part_path", "write_rows"}

\* "from curators.common import Curator" of the curate command: importing
\* the module runs its import statements
ImportCurator == IF CuratorImports \subseteq StorageNames THEN "" ELSE "ImportError"

\* the curated table of each raw table
CuratedTable(d) ==
  IF d = "blocks" THEN "block_core"
  ELSE IF d = "validators" THEN "validator_core"
  ELSE IF d = "attestations" THEN "attestation_core" ELSE "penalty_core"

CuratedPart(d) == "curated/" \o CuratedTable(d)
CuratedParts == {CuratedPart(d) : d \in AllDatasets}

\* "cols = [...]" of each table
CuratedCols(d) ==
  IF d = "blocks"
  THEN {"chain_id", "network", "height_or_slot", "epoch", "block_hash", "parent_hash", "proposer_index", "proposer_address", "timestamp_utc"}
  ELSE IF d = "validators"
  THEN {"chain_id", "network", "snapshot_ts", "validator_id", "status", "balance", "effective_balance", "slashed", "withdrawal_address"}
  ELSE IF d = "attestations"
  THEN {"chain_id", "network", "height_or_slot", "epoch", "committee_index", "head_block_root", "source_epoch", "target_epoch"}
  ELSE {"chain_id", "network", "height_or_slot", "validator_id", "penalty_type", "value", "meta_json"}

\* Curator._read_any: part_path, then the first of the *.parquet and *.csv
\* files of the directory, and no other
CuratorReadAny(f, p) ==
  IF f[p].parquet # <<>> THEN ReadParquet(f[p].parquet[1])
  ELSE IF f[p].csv # <<>> THEN ReadCsv(f[p].csv[1])
  ELSE <<>>

\* "for c in cols: if c not in raw.columns: raw[c] = None", then "raw[cols]"
Project(frame, cols) ==
  [i \in DOMAIN frame |->
     [c \in cols |-> IF c \in DOMAIN frame[i] THEN frame[i][c] ELSE NoneCell]]

\* df.drop_duplicates(): the first of every group of equal rows is kept
DropDuplicates(frame) ==
  LET RECURSIVE Kept(_)
      Kept(k) ==
        IF k = 0 THEN <<>>
        ELSE IF \E j \in 1..(k - 1) : frame[j] = frame[k] THEN Kept(k - 1)
        ELSE Append(Kept(k - 1), frame[k])
  IN Kept(Len(frame))

\* one table of curate: the store it leaves and the exception it raises
CurateTable(f, d, fmt) ==
  LET f1 == PartPath(f, RawPart(d))
      raw == CuratorReadAny(f1, RawPart(d))
      f2 == PartPath(f1, CuratedPart(d))
      out == DropDuplicates(Project(raw, CuratedCols(d)))
  IN IF DfEmpty(raw) THEN [fs |-> f1, exc |-> ""]
     ELSE [fs |-> WriteRows(f2, CuratedPart(d), out, fmt), exc |-> WriteRowsExc(f2, CuratedPart(d), out, fmt)]

\* Curator.curate: blocks, validators, attestations, penalties, in this order
CurateOrder == <<"blocks", "validators", "attestations", "penalties">>

RECURSIVE CurateFrom(_, _, _)
CurateFrom(f, k, fmt) ==
  IF k > Len(CurateOrder) THEN [fs |-> f, exc |-> ""]
  ELSE LET res == CurateTable(f, CurateOrder[k], fmt)
       IN IF res.exc # "" THEN res ELSE CurateFrom(res.fs, k + 1, fmt)

Curate(f, fmt) == CurateFrom(f, 1, fmt)

\* the curate command: import the curator module, build the Curator, curate
CurateCommand ==
  /\ kpc = "idle"
  /\ LET res == IF ImportCurator # "" THEN [fs |-> fs, exc |-> ImportCurator] ELSE Curate(fs, format)
     IN /\ fs' = res.fs
        /\ kexc' = res.exc
        /\ kpc' = IF res.exc = "" THEN "done" ELSE "raised"
  /\ UNCHANGED <<storeHist, httpVars, collVars, runVars, featVars, clientVars, restVars>>

\* what collect runs may have left in the raw partition of dataset d: no
\* directory, the empty marker, a parquet file (with two equal rows), a csv
\* file, or a csv and a parquet file of two runs
RawDirs(c, d) ==
  LET made == [NoDir EXCEPT !.dir = TRUE]
      r1 == DatasetRow(c, d, 1)
      r2 == DatasetRow(c, d, 2)
  IN IF c = "polkadot" /\ d = "attestations" THEN {NoDir}
     ELSE {NoDir,
           [made EXCEPT !.empty = TRUE],
           [made EXCEPT !.parquet = <<ToParquet(DataFrame(<<r1, r1, r2>>))>>],
           [made EXCEPT !.csv = <<ToCsv(DataFrame(<<r1>>))>>],
           [made EXCEPT !.csv = <<ToCsv(DataFrame(<<r1>>))>>, !.parquet = <<ToParquet(DataFrame(<<r2>>))>>]}

CurateInit ==
  /\ chain \in Chains
  /\ format \in AnyFormats
  /\ max_workers = 1
  /\ \E b \in RawDirs(chain, "blocks"), v \in RawDirs(chain, "validators"), a \in RawDirs(chain, "attestations"), n \in RawDirs(chain, "penalties") :
       fs = [p \in RawParts \cup CuratedParts |->
               IF p = RawPart("blocks") THEN b
               ELSE IF p = RawPart("validators") THEN v
               ELSE IF p = RawPart("attestations") THEN a
               ELSE IF p = RawPart("penalties") THEN n
               ELSE NoDir]
  /\ fs0 = fs /\ datasets = {}
  /\ storeOp = "none" /\ storeExc = "" /\ storeFmt = "" /\ storeRet = <<>> /\ lastRows = <<>>
  /\ wroteFresh = FALSE /\ lastProv = <<>>
  /\ hpc = "idle" /\ attempt = 0 /\ delay = 0
  /\ requests = <<>> /\ sleeps = <<>> /\ raised = <<>>
  /\ cpc = "idle" /\ explicit = FALSE /\ head = <<>> /\ win = <<>>
  /\ nextItem = 0 /\ task = <<>> /\ rows = <<>> /\ fetchLog = <<>> /\ cexc = <<>>
  /\ cur = "" /\ phase = "idle" /\ todo = {} /\ inflight = {}
  /\ cursor = <<>> /\ served = <<>> /\ events = <<>>
  /\ SideIdle

CurateNext == CurateCommand

SpecCurate == CurateInit /\ [][CurateNext]_vars

(***************************************************************************)
(* SpecPipeline: a collect command followed by a curate command of the     *)
(* same chain and date.                                                    *)
(***************************************************************************)
\* the curate command of a store a collect command has returned on
PipelineCurate ==
  /\ phase = "done"
  /\ CurateCommand

PipelineInit ==
  /\ chain \in Chains
  /\ format \in {"parquet", "json"}
  /\ max_workers \in 1..MaxWorkers
  /\ fs = [p \in RawParts \cup CuratedParts |-> NoDir]
  /\ fs0 = fs /\ datasets = {}
  /\ storeOp = "none" /\ storeExc = "" /\ storeFmt = "" /\ storeRet = <<>> /\ lastRows = <<>>
  /\ wroteFresh = FALSE /\ lastProv = <<>>
  /\ hpc = "idle" /\ attempt = 0 /\ delay = 0
  /\ requests = <<>> /\ sleeps = <<>> /\ raised = <<>>
  /\ cpc = "idle" /\ explicit = FALSE /\ head = <<>> /\ win = <<>>
  /\ nextItem = 0 /\ task = <<>> /\ rows = <<>> /\ fetchLog = <<>> /\ cexc = <<>>
  /\ cur = "" /\ phase = "idle" /\ todo = {} /\ inflight = {}
  /\ cursor = <<>> /\ served = <<>> /\ events = <<>>
  /\ SideIdle

PipelineNext ==
  \/ RunCollect
  \/ RunSeqFetch
  \/ RunPoolFetch
  \/ RunPoolConsume
  \/ RunSingleFetch
  \/ RunPageFetch
  \/ RunPageFails
  \/ RunWriteRows
  \/ RunWriteProvenance
  \/ PipelineCurate

SpecPipeline == PipelineInit /\ [][PipelineNext]_vars

(***************************************************************************)
(* cli.py "features" and features/*.py                                     *)
(***************************************************************************)
IngestDate == StrCell("date", 0)

FeaturesPart(t) == "features/" \o t
FeatureParts == {FeaturesPart("validator_stats_daily"), FeaturesPart("trust_signals_daily")}

\* pd.isna(x)
IsNull(c) == c.t \in {"none", "nan"}

\* "col in df.columns"
HasColumn(df, col) == df # <<>> /\ col \in DOMAIN df[1]

\* Python's == (and hash) of two dict keys: numbers by value, strings by text
SameKey(a, b) ==
  IF a.t \in {"int", "float"} /\ b.t \in {"int", "float"} THEN a.v = b.v
  ELSE a.t = "str" /\ b.t = "str" /\ a = b

\* pc.groupby("validator_id")["penalty_type"].count().to_dict(), then
\* .get(vid, 0): count() counts the non-null penalty_type values of the group
SlashCountSize(pc, vid) ==
  Cardinality({i \in DOMAIN pc : SameKey(pc[i].validator_id, vid)})
SlashCount(pc, vid) ==
  Cardinality({i \in DOMAIN pc : SameKey(pc[i].validator_id, vid) /\ ~IsNull(pc[i].penalty_type)})

\* "None if pd.isna(eff_bal) else float(eff_bal or 0.0)", eff_bal being
\* r.get("effective_balance")
TrustScore(r) ==
  LET eff_bal == IF "effective_balance" \in DOMAIN r THEN r.effective_balance ELSE NoneCell
  IN IF IsNull(eff_bal) THEN NoneCell ELSE FloatCell(eff_bal.v)

\* the rows of build_trust_signals_daily: one per row of vc
TrustRows(c, vc, pc) ==
  LET counted == ~DfEmpty(pc) /\ HasColumn(pc, "validator_id")
  IN IF DfEmpty(vc) THEN <<>>
     ELSE [i \in DOMAIN vc |->
             [chain_id |-> StrCell(c, 0), network |-> StrCell(Network(c), 0),
              date |-> IngestDate, validator_id |-> vc[i].validator_id,
              trust_score_v0 |-> TrustScore(vc[i]),
              penalty_count_v0 |-> IntCell(IF counted THEN SlashCount(pc, vc[i].validator_id) ELSE 0)]]

\* the KeyError of a column the code indexes and the frame lacks
TrustKeyError(vc, pc) ==
  /\ ~DfEmpty(vc)
  /\ \/ ~HasColumn(vc, "validator_id")
     \/ ~DfEmpty(pc) /\ HasColumn(pc, "validator_id") /\ ~HasColumn(pc, "penalty_type")

\* build_trust_signals_daily(cfg, date): the store it leaves, the exception
\* it raises and the rows it built
BuildTrustSignals(f, c, fmt) ==
  LET f1 == PartPath(PartPath(f, CuratedPart("validators")), CuratedPart("penalties"))
      vc == ReadAny(f1, CuratedPart("validators"))
      pc == ReadAny(f1, CuratedPart("penalties"))
      out == FeaturesPart("trust_signals_daily")
      f2 == PartPath(f1, out)
  IN IF TrustKeyError(vc, pc) THEN [fs |-> f1, exc |-> "KeyError", rows |-> <<>>]
     ELSE [fs |-> WriteRows(f2, out, TrustRows(c, vc, pc), fmt),
           exc |-> WriteRowsExc(f2, out, TrustRows(c, vc, pc), fmt),
           rows |-> <<TrustRows(c, vc, pc)>>]

\* Series.nunique(): the number of distinct non-null values
Nunique(df, col) == Cardinality({df[i][col] : i \in {j \in DOMAIN df : ~IsNull(df[j][col])}})

\* Series.mean() of a numeric column: the mean of the non-null values, NaN
\* without any (the quotient is exact for the balances of the frames here)
RECURSIVE SumOf(_, _, _)
SumOf(df, col, k) ==
  IF k = 0 THEN 0
  ELSE SumOf(df, col, k - 1) + (IF IsNull(df[k][col]) THEN 0 ELSE df[k][col].v)

Mean(df, col) ==
  LET n == Cardinality({i \in DOMAIN df : ~IsNull(df[i][col])})
  IN IF n = 0 THEN NaNCell ELSE FloatCell(SumOf(df, col, Len(df)) \div n)

\* the rows of build_validator_stats_daily
ValidatorsStatsRow(c, vc) ==
  [chain_id |-> StrCell(c, 0), network |-> StrCell(Network(c), 0), date |-> IngestDate,
   num_validators |-> IntCell(Nunique(vc, "validator_id")),
   avg_balance |-> IF HasColumn(vc, "balance") THEN Mean(vc, "balance") ELSE NoneCell,
   avg_effective_balance |-> IF HasColumn(vc, "effective_balance") THEN Mean(vc, "effective_balance") ELSE NoneCell]

BlocksStatsRow(c, bc) ==
  [chain_id |-> StrCell(c, 0), network |-> StrCell(Network(c), 0), date |-> IngestDate,
   num_blocks |-> IntCell(Nunique(bc, "height_or_slot"))]

StatsRowsAlways(c, vc, bc) ==
  <<ValidatorsStatsRow(c, vc), BlocksStatsRow(c, bc)>>
StatsRows(c, vc, bc) ==
  (IF DfEmpty(vc) THEN <<>> ELSE <<ValidatorsStatsRow(c, vc)>>)
    \o (IF DfEmpty(bc) THEN <<>> ELSE <<BlocksStatsRow(c, bc)>>)

StatsKeyError(vc, bc) ==
  \/ ~DfEmpty(vc) /\ ~HasColumn(vc, "validator_id")
  \/ ~DfEmpty(bc) /\ ~HasColumn(bc, "height_or_slot")

\* build_validator_stats_daily(cfg, date)
BuildValidatorStats(f, c, fmt) ==
  LET f1 == PartPath(PartPath(f, CuratedPart("validators")), CuratedPart("blocks"))
      vc == ReadAny(f1, CuratedPart("validators"))
      bc == ReadAny(f1, CuratedPart("blocks"))
      out == FeaturesPart("validator_stats_daily")
      f2 == PartPath(f1, out)
  IN IF StatsKeyError(vc, bc) THEN [fs |-> f1, exc |-> "KeyError", rows |-> <<>>]
     ELSE [fs |-> WriteRows(f2, out, StatsRows(c, vc, bc), fmt),
           exc |-> WriteRowsExc(f2, out, StatsRows(c, vc, bc), fmt),
           rows |-> <<StatsRows(c, vc, bc)>>]

\* the features command: build_validator_stats_daily(chain_cfg, date=...)
FeaturesStats ==
  /\ fpc = "idle"
  /\ LET res == BuildValidatorStats(fs, chain, format)
     IN /\ fs' = res.fs
        /\ statsRows' = res.rows
        /\ fexc' = res.exc
        /\ fpc' = IF res.exc = "" THEN "stats" ELSE "raised"
  /\ UNCHANGED <<trustRows, storeHist, httpVars, collVars, runVars, curVars, clientVars, restVars>>

\* ... then build_trust_signals_daily(chain_cfg, date=...)
FeaturesTrust ==
  /\ fpc = "stats"
  /\ LET res == BuildTrustSignals(fs, chain, format)
     IN /\ fs' = res.fs
        /\ trustRows' = res.rows
        /\ fexc' = res.exc
        /\ fpc' = IF res.exc = "" THEN "done" ELSE "raised"
  /\ UNCHANGED <<statsRows, storeHist, httpVars, collVars, runVars, curVars, clientVars, restVars>>

\* the curated rows a curated partition may hold: Validator and Block rows
\* as the collector builds them and Penalty rows of the schema (validator_id
\* and penalty_type are optional), projected on the curated columns
RECURSIVE DatasetRowsOf(_, _, _)
DatasetRowsOf(c, d, K) ==
  IF K = {} THEN <<>>
  ELSE LET m == CHOOSE x \in K : \A y \in K : y <= x
       IN Append(DatasetRowsOf(c, d, K \ {m}), DatasetRow(c, d, m))

SchemaPenalties(c) ==
  {Penalty(c, Network(c), 0, vid, pt, NoneCell, StrCell("json", 0)) :
     vid \in {ValidatorRow(c, 0).validator_id, NoneCell},
     pt \in {StrCell("slashing", 0), NoneCell}}

CuratedRowLists(c, d) ==
  IF d = "penalties"
  THEN {<<p>> : p \in SchemaPenalties(c)} \cup {<<p, q>> : p, q \in SchemaPenalties(c)}
  ELSE {DatasetRowsOf(c, d, K) : K \in (SUBSET (0..MaxKey)) \ {{}}}

\* what a curated partition holds: no directory, the empty marker, or the
\* data file one write_rows of curated rows in format cf left
CuratedDirs(c, d, cf) ==
  LET made == [NoDir EXCEPT !.dir = TRUE]
  IN {NoDir, [made EXCEPT !.empty = TRUE]}
       \cup {WriteRows([x \in {"p"} |-> made], "p", Project(rs, CuratedCols(d)), cf).p : rs \in CuratedRowLists(c, d)}

FeaturesInit ==
  /\ chain \in Chains
  /\ format \in AnyFormats
  /\ max_workers = 1
  /\ \E cf \in Formats :
       \E b \in CuratedDirs(chain, "blocks", cf), v \in CuratedDirs(chain, "validators", cf), n \in CuratedDirs(chain, "penalties", cf) :
         fs = [p \in CuratedParts \cup FeatureParts |->
                 IF p = CuratedPart("blocks") THEN b
                 ELSE IF p = CuratedPart("validators") THEN v
                 ELSE IF p = CuratedPart("penalties") THEN n
                 ELSE NoDir]
  /\ fs0 = fs /\ datasets = {}
  /\ storeOp = "none" /\ storeExc = "" /\ storeFmt = "" /\ storeRet = <<>> /\ lastRows = <<>>
  /\ wroteFresh = FALSE /\ lastProv = <<>>
  /\ hpc = "idle" /\ attempt = 0 /\ delay = 0
  /\ requests = <<>> /\ sleeps = <<>> /\ raised = <<>>
  /\ cpc = "idle" /\ explicit = FALSE /\ head = <<>> /\ win = <<>>
  /\ nextItem = 0 /\ task = <<>> /\ rows = <<>> /\ fetchLog = <<>> /\ cexc = <<>>
  /\ cur = "" /\ phase = "idle" /\ todo = {} /\ inflight = {}
  /\ cursor = <<>> /\ served = <<>> /\ events = <<>>
  /\ SideIdle

FeaturesNext ==
  \/ FeaturesStats
  \/ FeaturesTrust

SpecFeatures == FeaturesInit /\ [][FeaturesNext]_vars

(***************************************************************************)
(* minimalApproach/code/http.py: class HttpClient.  A dict is a function   *)
(* from its keys to their values; an optional dict is None (<<>>) or <<d>>. *)
(***************************************************************************)
\* the attributes of an HttpClient object: the fields __init__ sets and the
\* methods the class defines
HttpClientAttrs ==
  {"base_url", "api_key", "api_key_transport", "rate_limit_seconds", "timeout_seconds",
   "_session", "_lock", "_next_at", "_wait_for_slot", "get_json"}

\* "self.<name>": the attribute lookup raises for a name the object lacks
GetAttrExc(name) == IF name \in HttpClientAttrs THEN "" ELSE "AttributeError"

\* headers = {"User-Agent": ..., "apikey": self.api_key}
GetJsonHeaders(key) ==
  [k \in {"User-Agent", "apikey"} |-> IF k = "apikey" THEN key ELSE "aibyz-collector/0.1 (+minimal)"]

\* get_json up to its first request: self._inject_key(params, headers), then
\* self._build_url(path)
GetJsonExc ==
  IF GetAttrExc("_inject_key") # "" THEN GetAttrExc("_inject_key")
  ELSE GetAttrExc("_build_url")

EmptyDict == [k \in {} |-> ""]
ParamChoices == {<<>>, <<EmptyDict>>, <<[k \in {"limit"} |-> "1"]>>}
HeaderChoices == {EmptyDict, [k \in {"User-Agent"} |-> "test"]}
PathChoices == {"validator/0", "validator/0/performance"}

\* client._inject_key(params, headers), as the test calls it
ClientInjectKey ==
  \E params \in ParamChoices, headers \in HeaderChoices :
    /\ clientOp' = "_inject_key"
    /\ clientArgs' = <<params, headers>>
    /\ clientExc' = GetAttrExc("_inject_key")
    /\ clientRet' = <<>>
    /\ clientHeaders' = headers
    /\ UNCHANGED <<api_key, api_key_transport, rate_limit_seconds, clientSent>>
    /\ UNCHANGED <<storeVars, httpVars, collVars, runVars, curVars, featVars, restVars>>

\* What the source answers to one request: the status, the Retry-After header
\* (optional) and whether the body parses as JSON.
RetryAfterChoices == {<<>>, <<"2">>, <<"soon">>, <<"-1">>}
StatusChoices == {200, 300, 429, 500}
Response(st, ra, js) == [status |-> st, retry_after |-> ra, json |-> js]

\* The answers one get_json call can meet: a first answer and, behind a 429,
\* the answer to the retry.
ResponseChoices ==
  {<<Response(st, <<>>, js)>> : st \in StatusChoices \ {429}, js \in BOOLEAN}
  \cup {<<Response(429, ra, FALSE), Response(st, <<>>, js)>> : ra \in RetryAfterChoices, st \in StatusChoices, js \in BOOLEAN}

\* float(retry_after): the number, or nothing where float raises ValueError
ParseFloat(str) ==
  IF str = "2" THEN <<2>> ELSE IF str = "-1" THEN <<0 - 1>> ELSE <<>>

\* lines 42-46: the delay before the retry
RetryDelay(resp, rate) ==
  IF resp.retry_after = <<>> THEN Max(rate, 1)
  ELSE IF ParseFloat(resp.retry_after[1]) = <<>> THEN Max(rate, 1)
  ELSE ParseFloat(resp.retry_after[1])[1]

\* response.raise_for_status(): HTTPError for 4xx and 5xx, nothing otherwise
RaiseForStatus(st) == IF st >= 400 /\ st < 600 THEN "HTTPError" ELSE ""

\* lines 50-55 on the response the call ends with
Finish(resp) ==
  IF RaiseForStatus(resp.status) # "" THEN [exc |-> RaiseForStatus(resp.status), ret |-> <<>>]
  ELSE IF resp.json THEN [exc |-> "", ret |-> <<EmptyDict>>]
  ELSE [exc |-> "RuntimeError", ret |-> <<>>]

\* time.sleep(delay) raises ValueError for a negative delay
SleepRaises(dl) == dl < 0

\* get_json, lines 34-55, against the answers resps: the requests it sends,
\* the delays it sleeps at line 47, and how it ends.
GetJsonRun(resps, rate) ==
  IF GetJsonExc # "" THEN [tries |-> 0, slept |-> <<>>, exc |-> GetJsonExc, ret |-> <<>>]
  ELSE IF resps[1].status # 429
    THEN [tries |-> 1, slept |-> <<>>, exc |-> Finish(resps[1]).exc, ret |-> Finish(resps[1]).ret]
  ELSE IF SleepRaises(RetryDelay(resps[1], rate))
    THEN [tries |-> 1, slept |-> <<>>, exc |-> "ValueError", ret |-> <<>>]
  ELSE [tries |-> 2, slept |-> <<RetryDelay(resps[1], rate)>>, exc |-> Finish(resps[2]).exc, ret |-> Finish(resps[2]).ret]

\* client.get_json(path, params)
ClientGetJson ==
  \E path \in PathChoices, params \in ParamChoices, resps \in ResponseChoices :
    /\ clientOp' = "get_json"
    /\ clientArgs' = <<path, params>>
    /\ clientExc' = GetJsonRun(resps, rate_limit_seconds).exc
    /\ clientRet' = GetJsonRun(resps, rate_limit_seconds).ret
    /\ clientHeaders' = GetJsonHeaders(api_key)
    /\ clientSent' = clientSent \o [i \in 1..GetJsonRun(resps, rate_limit_seconds).tries |-> [params |-> params, headers |-> GetJsonHeaders(api_key)]]
    /\ responses' = resps
    /\ tries' = GetJsonRun(resps, rate_limit_seconds).tries
    /\ slept' = GetJsonRun(resps, rate_limit_seconds).slept
    /\ UNCHANGED <<api_key, api_key_transport, rate_limit_seconds>>
    /\ UNCHANGED <<storeVars, httpVars, collVars, runVars, curVars, featVars, methVars, argVars, perfVars, sessVars, paceVars>>

\* HttpClient(base_url, api_key, api_key_transport, rate_limit_seconds,
\* timeout_seconds)
ClientInit ==
  /\ api_key \in {"dummy_key", "other_key"}
  /\ api_key_transport \in {"header", "query"}
  /\ rate_limit_seconds \in 0..MaxRate
  /\ clientOp = "none" /\ clientArgs = <<>> /\ clientExc = ""
  /\ clientRet = <<>> /\ clientHeaders = <<>> /\ clientSent = <<>>
  /\ StoreInit /\ HttpIdle /\ CollIdle /\ RunIdle /\ CurIdle /\ FeatIdle /\ RestIdle

ClientNext ==
  \/ ClientInjectKey
  \/ ClientGetJson

SpecClient == ClientInit /\ [][ClientNext]_vars

(***************************************************************************)
(* SpecMethod: one call of a dataset method (_validators, _attestations,   *)
(* _attestations_from_commits, _penalties, _signing_infos), run            *)
(* sequentially, with the payload of each of its fetches: whether the      *)
(* request raised, whether it returned a JSON object, and the entries the  *)
(* object lists, each well-formed or not.                                  *)
(***************************************************************************)
\* the dataset methods other than _blocks the collector of chain c has
MethodDatasets(c) == {d \in {"validators", "attestations", "penalties"} : \E i \in DOMAIN Dispatch(c) : Dispatch(c)[i] = d}

\* an entry of a payload: of the shape the mapping expects, or not (not an
\* object, a field that is not a number, a missing key)
EntryShapes == {"ok", "bad"}

\* what a fetch got: "ok" a JSON object, "fail" the request raised after its
\* retries (or get_block_hash returned None), "notdict" a JSON value that is
\* not an object
FetchKinds == {"ok", "fail", "notdict"}

\* whether building the row of an entry of that shape raises.  It cannot for
\* eth2 slashings (the entry is only passed to json.dumps), for cosmos
\* signatures (the row does not read _sig) and for polkadot validator ids
\* (str(vid))
EntryRaises(c, d, shape) ==
  /\ shape = "bad"
  /\ ~(c = "eth2" /\ d = "penalties")
  /\ ~(c = "cosmos" /\ d = "attestations")
  /\ ~(c = "polkadot" /\ d = "validators")

\* the try block an exception of a row is caught by: "row" a try around the
\* one rows.append (continue), "item" the try around the whole body of
\* fetch_att / fetch_penalties (return None), "loop" a try around the whole
\* loop, whose appends went to the method's list already
TryScope(c, d) ==
  IF c = "polkadot" THEN "loop"
  ELSE IF c = "eth2" /\ d \in {"attestations", "penalties"} THEN "item"
  ELSE "row"

\* the position of entry i of item (or page) k among all entries
EntryKey(k, i) == (k - 1) * MaxEntries + i

\* the row built from entry i of the payload of item (or page) k
EntryRow(c, d, k, i, ts) ==
  IF d = "validators" THEN [ValidatorRow(c, EntryKey(k, i)) EXCEPT !.snapshot_ts = IntCell(ts)]
  ELSE IF d = "attestations"
  THEN (IF c = "eth2" THEN [AttestationRow(c, k) EXCEPT !.committee_index = IntCell(i)] ELSE AttestationRow(c, k))
  ELSE IF c = "cosmos" THEN PenaltyRow(c, EntryKey(k, i))
  ELSE [PenaltyRow(c, k) EXCEPT !.meta_json = StrCell("json", i)]

\* the rows one payload adds to the method's list
MapEntries(c, d, k, entries, ts) ==
  LET bad == {i \in DOMAIN entries : EntryRaises(c, d, entries[i])}
      all == [i \in DOMAIN entries |-> EntryRow(c, d, k, i, ts)]
      RECURSIVE Keep(_)
      Keep(n) == IF n = 0 THEN <<>>
                 ELSE IF n \in bad THEN Keep(n - 1) ELSE Append(Keep(n - 1), all[n])
  IN IF TryScope(c, d) = "row" THEN Keep(Len(entries))
     ELSE IF bad = {} THEN all
     ELSE IF TryScope(c, d) = "item" THEN <<>>
     ELSE SubSeq(all, 1, (CHOOSE i \in bad : \A j \in bad : i <= j) - 1)

\* "snapshot_ts=now": the local set once, not the clock when the row is built
SnapshotTsClock(nw, clk) == clk
SnapshotTs(nw, clk) == nw[1]

\* the exception of a fetch that leaves the method: a request that raised is
\* caught everywhere; "data.get(...)" on a value that is not an object stands
\* outside the try in eth2._validators and in the two pagination loops
UncaughtAny(c, d, fetch) == IF fetch = "ok" THEN "" ELSE "RequestException"
Uncaught(c, d, fetch) ==
  IF fetch = "notdict" /\ ((c = "eth2" /\ d = "validators") \/ Kind(c, d) = "paged")
  THEN "AttributeError" ELSE ""

\* the method's list after a fetch: extended by the rows of a payload, left
\* as it is by a fetch without one ("break", "data = {}", "if res:")
RowsAfterReset(rs, new, fetch) == IF fetch = "ok" THEN rs \o new ELSE <<>>
RowsAfter(rs, new, fetch) == IF fetch = "ok" THEN rs \o new ELSE rs

\* the payloads a fetch may get; only an object lists entries and a next_key
PayloadsFor(nexts) ==
  {[fetch |-> "fail", entries |-> <<>>, next |-> <<>>], [fetch |-> "notdict", entries |-> <<>>, next |-> <<>>]}
    \cup {[fetch |-> "ok", entries |-> es, next |-> nx] : es \in UNION {[1..n -> EntryShapes] : n \in 0..MaxEntries}, nx \in nexts}

Fetched(arg, payload) == [arg |-> arg, at |-> clock, payload |-> payload]

\* the method is called: "rows = []", "page_key = None", and in
\* cosmos._validators and polkadot._validators "now = int(datetime.now(...))"
MethodCall ==
  /\ mpc = "idle"
  /\ \E d \in MethodDatasets(chain) :
       /\ mds' = d
       /\ \E e \in (IF Kind(chain, d) = "window" THEN 1..MaxRunItems ELSE {0}) : mend' = e
       /\ now' = IF d = "validators" /\ chain # "eth2" THEN <<clock>> ELSE <<>>
  /\ mpc' = "fetch" /\ mitem' = 1 /\ page_key' = <<>>
  /\ mrows' = <<>> /\ mlog' = <<>> /\ mexc' = ""
  /\ UNCHANGED <<clock, storeVars, httpVars, collVars, runVars, curVars, featVars, clientVars, argVars, perfVars, sessVars, paceVars, retryVars>>

\* time passes
Tick ==
  /\ mpc \in {"idle", "fetch"}
  /\ clock < MaxClock
  /\ clock' = clock + 1
  /\ UNCHANGED <<mds, mpc, mend, now, mitem, page_key, mrows, mlog, mexc>>
  /\ UNCHANGED <<storeVars, httpVars, collVars, runVars, curVars, featVars, clientVars, argVars, perfVars, sessVars, paceVars, retryVars>>

\* one pass of "for slot in range(start, end + 1)": fetch_att, fetch_commit,
\* fetch_penalties or the body of polkadot's loop
MethodFetchItem ==
  /\ mpc = "fetch" /\ Kind(chain, mds) = "window"
  /\ \E payload \in PayloadsFor({<<>>}) :
       /\ mrows' = RowsAfter(mrows, MapEntries(chain, mds, mitem, payload.entries, 0), payload.fetch)
       /\ mlog' = Append(mlog, Fetched(mitem, payload))
       /\ mexc' = Uncaught(chain, mds, payload.fetch)
       /\ mpc' = IF Uncaught(chain, mds, payload.fetch) # "" THEN "raised"
                 ELSE IF mitem + 1 > mend THEN "write" ELSE "fetch"
  /\ mitem' = mitem + 1
  /\ UNCHANGED <<mds, mend, clock, now, page_key>>
  /\ session' = SessionAfter(chain, session)
  /\ UNCHANGED <<storeVars, httpVars, collVars, runVars, curVars, featVars, clientVars, argVars, perfVars, paceVars, retryVars>>

\* the one fetch of eth2._validators and polkadot._validators and the loop
\* over its entries; eth2 sets "now" after the fetch
MethodFetchListing ==
  /\ mpc = "fetch" /\ Kind(chain, mds) = "single"
  /\ LET nw == IF chain = "eth2" THEN <<clock>> ELSE now
     IN /\ now' = nw
        /\ \E payload \in PayloadsFor({<<>>}) :
             /\ mrows' = RowsAfter(mrows, MapEntries(chain, mds, 1, payload.entries, SnapshotTs(nw, clock)), payload.fetch)
             /\ mlog' = Append(mlog, Fetched(0, payload))
             /\ mexc' = Uncaught(chain, mds, payload.fetch)
             /\ mpc' = IF Uncaught(chain, mds, payload.fetch) # "" THEN "raised" ELSE "write"
  /\ UNCHANGED <<mds, mend, clock, mitem, page_key>>
  /\ session' = SessionAfter(chain, session)
  /\ UNCHANGED <<storeVars, httpVars, collVars, runVars, curVars, featVars, clientVars, argVars, perfVars, paceVars, retryVars>>

\* one pass of "while True" in cosmos._validators and cosmos._signing_infos
MethodFetchPage ==
  /\ mpc = "fetch" /\ Kind(chain, mds) = "paged"
  /\ \E payload \in PayloadsFor({<<>>} \cup {<<k>> : k \in {PageItem(page_key) + 1} \cap (1..MaxPages)}) :
       /\ mrows' = RowsAfter(mrows, MapEntries(chain, mds, PageItem(page_key), payload.entries, SnapshotTs(now, clock)), payload.fetch)
       /\ mlog' = Append(mlog, Fetched(IF page_key = <<>> THEN 0 ELSE page_key[1], payload))
       /\ mexc' = Uncaught(chain, mds, payload.fetch)
       /\ page_key' = IF payload.fetch = "ok" THEN payload.next ELSE page_key
       /\ mpc' = IF Uncaught(chain, mds, payload.fetch) # "" THEN "raised"
                 ELSE IF payload.fetch = "ok" /\ payload.next # <<>> THEN "fetch" ELSE "write"
  /\ UNCHANGED <<mds, mend, clock, now, mitem>>
  /\ session' = SessionAfter(chain, session)
  /\ UNCHANGED <<storeVars, httpVars, collVars, runVars, curVars, featVars, clientVars, argVars, perfVars, paceVars, retryVars>>

\* "out = part_path(...); write_rows(rows, out, self.format)"
MethodWriteRows ==
  /\ mpc = "write"
  /\ LET made == PartPath(fs, RawPart(mds))
         exc == WriteRowsExc(made, RawPart(mds), mrows, format)
     IN /\ fs' = WriteRows(made, RawPart(mds), mrows, format)
        /\ mpc' = IF exc = "" THEN "prov" ELSE "raised"
        /\ mexc' = exc
  /\ UNCHANGED <<mds, mend, clock, now, mitem, page_key, mrows, mlog>>
  /\ UNCHANGED <<storeHist, httpVars, collVars, runVars, curVars, featVars, clientVars, argVars, perfVars, sessVars, paceVars, retryVars>>

\* "write_provenance(out, Provenance(..., rows=len(rows)).to_dict())"
MethodWriteProvenance ==
  /\ mpc = "prov"
  /\ fs' = WriteProvenance(fs, RawPart(mds), MethodProvenance(chain, mds, mrows))
  /\ mpc' = "done"
  /\ UNCHANGED <<mds, mend, clock, now, mitem, page_key, mrows, mlog, mexc>>
  /\ UNCHANGED <<storeHist, httpVars, collVars, runVars, curVars, featVars, clientVars, argVars, perfVars, sessVars, paceVars, retryVars>>

MethodInit ==
  /\ chain \in Chains
  /\ format \in {"parquet", "json"}
  /\ max_workers = 1
  /\ fs = [p \in RawParts |-> NoDir]
  /\ fs0 = fs /\ datasets = {}
  /\ storeOp = "none" /\ storeExc = "" /\ storeFmt = "" /\ storeRet = <<>> /\ lastRows = <<>>
  /\ wroteFresh = FALSE /\ lastProv = <<>>
  /\ cpc = "idle" /\ explicit = FALSE /\ head = <<>> /\ win = <<>>
  /\ nextItem = 0 /\ task = <<>> /\ rows = <<>> /\ fetchLog = <<>> /\ cexc = <<>>
  /\ HttpIdle /\ RunIdle /\ SideIdle

MethodNext ==
  \/ MethodCall
  \/ Tick
  \/ MethodFetchItem
  \/ MethodFetchListing
  \/ MethodFetchPage
  \/ MethodWriteRows
  \/ MethodWriteProvenance

SpecMethod == MethodInit /\ [][MethodNext]_vars

(***************************************************************************)
(* SpecWindow: collect called with any combination of start, end and       *)
(* lookback, from the resolution of its window to the end of _blocks.      *)
(***************************************************************************)
\* "if start_slot is None or end_slot is None"
UsesLookbackBoth(sa, ea) == sa = <<>> /\ ea = <<>>
UsesLookback(sa, ea) == sa = <<>> \/ ea = <<>>

\* the values a caller passes for a bound; None is <<>>
BoundChoices == {<<>>} \cup {<<n>> : n \in 0..MaxHeight}

\* the head positions the source may report: the small ones, and one as
\* large as the default lookback of the chain
HeadChoices(c) == (0..MaxHeight) \cup {DefaultLookback(c)}

\* collect(datasets, date, start, end, lookback): the head is queried (and
\* answers, or raises) when a bound is None; otherwise "int(start), int(end)",
\* which raises TypeError for None
Collect ==
  /\ cpc = "idle"
  /\ \E sa \in BoundChoices, ea \in BoundChoices, lb \in {<<>>} \cup {<<n>> : n \in (0 - 1)..MaxLookback}, ds \in DatasetChoices :
       /\ start_arg' = sa /\ end_arg' = ea /\ lookback_arg' = lb
       /\ datasets' = ds
       /\ explicit' = ~UsesLookback(sa, ea)
       /\ IF UsesLookback(sa, ea)
          THEN /\ fetchLog' = <<HeadFetch>>
               /\ session' = SessionAfter(chain, session)
               /\ \E hdo \in {<<>>} \cup {<<hd>> : hd \in HeadChoices(chain)} :
                    IF hdo = <<>>
                    THEN /\ cpc' = "raised" /\ cexc' = <<[type |-> "RequestException", at |-> "head"]>>
                         /\ UNCHANGED <<head, win, nextItem, task, rows>>
                    ELSE /\ ds = {} \/ hdo[1] <= MaxHeight
                         /\ head' = hdo
                         /\ win' = <<LookbackWindow(chain, hdo[1], lb)>>
                         /\ Enter(LookbackWindow(chain, hdo[1], lb), ds)
          ELSE /\ fetchLog' = <<>>
               /\ session' = session
               /\ head' = <<>>
               /\ IF sa = <<>> \/ ea = <<>>
                  THEN /\ cpc' = "raised" /\ cexc' = <<[type |-> "TypeError", at |-> "collect"]>>
                       /\ UNCHANGED <<win, nextItem, task, rows>>
                  ELSE /\ win' = <<[start |-> sa[1], end |-> ea[1]]>>
                       /\ Enter([start |-> sa[1], end |-> ea[1]], ds)
  /\ UNCHANGED <<chain, format, max_workers, fs0, storeVars, httpVars, runVars, curVars, featVars, clientVars, methVars, perfVars, paceVars, retryVars>>

WindowInit ==
  /\ chain \in Chains
  /\ format = "parquet"
  /\ max_workers \in 1..MaxWorkers
  /\ fs = [p \in Partitions |-> NoDir]
  /\ fs0 = fs /\ datasets = {}
  /\ storeOp = "none" /\ storeExc = "" /\ storeFmt = "" /\ storeRet = <<>> /\ lastRows = <<>>
  /\ wroteFresh = FALSE /\ lastProv = <<>>
  /\ cpc = "idle" /\ explicit = FALSE /\ head = <<>> /\ win = <<>>
  /\ nextItem = 0 /\ task = <<>> /\ rows = <<>> /\ fetchLog = <<>> /\ cexc = <<>>
  /\ HttpIdle /\ RunIdle /\ SideIdle

WindowNext ==
  \/ Collect
  \/ SeqFetch
  \/ PoolSubmit
  \/ WorkerStart
  \/ WorkerFinish
  \/ PoolDrain
  \/ BlocksWrite
  \/ BlocksProvenance

SpecWindow == WindowInit /\ [][WindowNext]_vars

(***************************************************************************)
(* minimalApproach/code/beaconchain.py and collectors/performance.py       *)
(***************************************************************************)
\* {**a, **b}: the keys of both, b's value where both have the key
Merge(a, b) == [k \in DOMAIN a \cup DOMAIN b |-> IF k \in DOMAIN b THEN b[k] ELSE a[k]]

\* what get_validator_overview returns for the payload of index idx
Overview(idx) ==
  [k \in {"validator_index", "pubkey", "status"} |->
     IF k = "validator_index" THEN IntCell(idx)
     ELSE IF k = "pubkey" THEN StrCell("pubkey", idx) ELSE StrCell("active_online", 0)]

\* what get_validator_performance returns for the payload of index idx
Performance(idx) ==
  [k \in {"validator_index", "attestations_total", "rewards_sum_gwei"} |->
     IF k = "validator_index" THEN IntCell(idx) ELSE IntCell(idx + 1)]

\* client.get_json(path): the exception it raises ("" when it returns); it
\* sends its request, which the source answers or not, only if it gets as far
GetJsonRaisesSent(answer) == IF answer = "ok" THEN "" ELSE "HTTPError"
GetJsonRaises(answer) ==
  IF GetJsonExc # "" THEN GetJsonExc
  ELSE IF answer = "ok" THEN "" ELSE "HTTPError"

\* the requests of one index that reach the source
RequestsOf(idx, a) ==
  IF GetJsonExc # "" THEN <<>>
  ELSE <<[params |-> <<>>, headers |-> GetJsonHeaders(api_key)]>>
         \o (IF a.ov = "ok" THEN <<[params |-> <<>>, headers |-> GetJsonHeaders(api_key)]>> ELSE <<>>)

\* collect_validator_rows(client, indexes): "rows = []"
PerfCall ==
  /\ ppc = "idle"
  /\ \E ixs \in UNION {[1..n -> 0..MaxKey] : n \in 0..(MaxKey + 1)} : indexes' = ixs
  /\ \E as \in [0..MaxKey -> [ov : {"ok", "fail"}, pf : {"ok", "fail"}]] : answers' = as
  /\ ppc' = "loop" /\ ppos' = 1 /\ prows' = <<>>
  /\ UNCHANGED <<baseVars, clientVars, methVars, argVars, sessVars, paceVars, retryVars>>

\* one pass of "for idx in indexes": the overview request, the sleep, the
\* performance request and rows.append; both except branches "continue"
PerfIndex ==
  /\ ppc = "loop" /\ ppos <= Len(indexes)
  /\ LET idx == indexes[ppos]
         ov == GetJsonRaises(answers[idx].ov)
         pf == GetJsonRaises(answers[idx].pf)
     IN /\ prows' = IF ov = "" /\ pf = "" THEN Append(prows, Merge(Overview(idx), Performance(idx))) ELSE prows
        /\ clientOp' = "get_json"
        /\ clientArgs' = <<IF ov = "" THEN "validator/performance" ELSE "validator", <<>>>>
        /\ clientExc' = IF ov = "" THEN pf ELSE ov
        /\ clientRet' = <<>>
        /\ clientHeaders' = GetJsonHeaders(api_key)
        /\ clientSent' = clientSent \o RequestsOf(idx, answers[idx])
  /\ ppos' = ppos + 1
  /\ UNCHANGED <<indexes, answers, ppc, api_key, api_key_transport, rate_limit_seconds>>
  /\ UNCHANGED <<baseVars, methVars, argVars, sessVars, paceVars, retryVars>>

\* "return rows"
PerfReturn ==
  /\ ppc = "loop" /\ ppos > Len(indexes)
  /\ ppc' = "returned"
  /\ UNCHANGED <<indexes, answers, ppos, prows>>
  /\ UNCHANGED <<baseVars, clientVars, methVars, argVars, sessVars, paceVars, retryVars>>

PerfInit == ClientInit

PerfNext ==
  \/ PerfCall
  \/ PerfIndex
  \/ PerfReturn

SpecPerf == PerfInit /\ [][PerfNext]_vars

(***************************************************************************)
(* SpecPace: the threads that share one HttpClient call _wait_for_slot.    *)
(***************************************************************************)
\* "if self.rate_limit_seconds and self.rate_limit_seconds > 0"
Paced(rate) == rate # 0 /\ rate > 0

\* "self._next_at = max(now, self._next_at) + self.rate_limit_seconds"
NextAt(nw, nxt, rate) == Max(nw, nxt) + rate

\* time.sleep(d) returns once d has passed, at that moment or later
SleepOver(mono, until) == mono >= until

Started(t) == [thread |-> t, at |-> monotonic]

\* a thread calls client._wait_for_slot(); without pacing the call returns
\* at once, with it the thread goes for the lock
PaceCall ==
  \E t \in Threads :
    /\ tpc[t] = "idle" /\ calls[t] < MaxCalls
    /\ calls' = [calls EXCEPT ![t] = calls[t] + 1]
    /\ IF Paced(rate_limit_seconds)
       THEN tpc' = [tpc EXCEPT ![t] = "waiting"] /\ starts' = starts
       ELSE tpc' = tpc /\ starts' = Append(starts, Started(t))
    /\ UNCHANGED <<monotonic, next_at, lock, tnow>>
    /\ UNCHANGED <<baseVars, clientVars, methVars, argVars, perfVars, sessVars, retryVars>>

\* "with self._lock: now = time.monotonic()": with the slot already due the
\* thread reserves the next one, leaves the lock and returns; else it sleeps,
\* holding the lock
PaceAcquire ==
  \E t \in Threads :
    /\ tpc[t] = "waiting" /\ lock = 0
    /\ tnow' = [tnow EXCEPT ![t] = monotonic]
    /\ IF monotonic < next_at
       THEN /\ lock' = t /\ tpc' = [tpc EXCEPT ![t] = "sleeping"]
            /\ UNCHANGED <<next_at, starts>>
       ELSE /\ next_at' = NextAt(monotonic, next_at, rate_limit_seconds)
            /\ lock' = 0 /\ tpc' = [tpc EXCEPT ![t] = "idle"]
            /\ starts' = Append(starts, Started(t))
    /\ UNCHANGED <<monotonic, calls>>
    /\ UNCHANGED <<baseVars, clientVars, methVars, argVars, perfVars, sessVars, retryVars>>

\* "time.sleep(self._next_at - now)" returns: the thread reserves the next
\* slot from the "now" it read before sleeping, leaves the lock and returns
PaceWake ==
  \E t \in Threads :
    /\ tpc[t] = "sleeping" /\ lock = t
    /\ SleepOver(monotonic, next_at)
    /\ next_at' = NextAt(tnow[t], next_at, rate_limit_seconds)
    /\ lock' = 0 /\ tpc' = [tpc EXCEPT ![t] = "idle"]
    /\ starts' = Append(starts, Started(t))
    /\ UNCHANGED <<monotonic, tnow, calls>>
    /\ UNCHANGED <<baseVars, clientVars, methVars, argVars, perfVars, sessVars, retryVars>>

\* a second passes
PaceTick ==
  /\ monotonic < MaxTime
  /\ monotonic' = monotonic + 1
  /\ UNCHANGED <<next_at, lock, tpc, tnow, calls, starts>>
  /\ UNCHANGED <<baseVars, clientVars, methVars, argVars, perfVars, sessVars, retryVars>>

PaceInit == ClientInit

PaceNext ==
  \/ PaceCall
  \/ PaceAcquire
  \/ PaceWake
  \/ PaceTick

SpecPace == PaceInit /\ [][PaceNext]_vars

(***************************************************************************)
(* Claims about the store (SpecStore).                                     *)
(***************************************************************************)
\* the (chain_id, network, key-field) tuples of a frame: the key field is
\* height_or_slot for Block rows and validator_id for Validator rows
KeyOf(r) == IF "height_or_slot" \in DOMAIN r THEN r.height_or_slot ELSE r.validator_id

KeyTuples(frame) ==
  [i \in DOMAIN frame |-> <<frame[i].chain_id, frame[i].network, KeyOf(frame[i])>>]

\* C1: after any sequence of runs that stored their rows with write_rows in
\* one partition, read_any of the partition returns exactly the rows of the
\* most recent run (none of an earlier run), also when that run stored zero
\* rows or used the other format.
C1_ReadReturnsLatestRun ==
  (storeOp = "read_any" /\ lastRows # <<>>)
    => KeyTuples(storeRet) = KeyTuples(lastRows[1])

\* C2: whatever the partition held before, write_rows with zero rows creates
\* the empty marker, a read_any afterwards returns an empty row-set, and the
\* marker tells the partition from one never written.
C2_EmptyWriteReadsEmpty ==
  lastRows = << <<>> >> =>
    /\ fs[ThePart].empty
    /\ fs[ThePart] \notin {NoDir, [NoDir EXCEPT !.dir = TRUE]}
    /\ storeOp = "read_any" => storeRet = <<>>

\* C12: in a partition that held no files before, writing N > 0 rows with
\* write_rows and reading them back with read_any returns N rows with the
\* same set of (chain_id, network, key-field) tuples, for csv and for parquet.
C12_RoundTripFresh ==
  (storeOp = "read_any" /\ lastRows # <<>> /\ lastRows[1] # <<>> /\ wroteFresh) =>
    /\ Len(storeRet) = Len(lastRows[1])
    /\ {KeyTuples(storeRet)[i] : i \in DOMAIN storeRet}
         = {KeyTuples(lastRows[1])[i] : i \in DOMAIN lastRows[1]}

\* C13: a written partition directory contains either one or more data files
\* or a single empty-marker file, never a data file and an empty marker at
\* the same time.
C13_DataXorMarker ==
  LET d == fs[ThePart]
      data == d.csv # <<>> \/ d.parquet # <<>>
  IN /\ lastRows # <<>> => (data \/ d.empty)
     /\ ~(data /\ d.empty)

\* C14: after any sequence of runs writing one partition, the partition holds
\* exactly one provenance sidecar and its content is the record of the most
\* recent write_provenance call: no field of an earlier record survives.
C14_ProvenanceLatest ==
  lastProv # <<>> =>
    /\ Len(fs[ThePart].prov) = 1
    /\ fs[ThePart].prov[1] = lastProv[1].payload
    /\ \A k \in DOMAIN lastProv[1].payload : fs[ThePart].prov[1][k] = lastProv[1].payload[k]

\* a record without note written over a record that had one (or other rows)
C14_Witness ==
  /\ storeOp = "write_provenance" /\ storeExc = ""
  /\ lastProv # <<>> /\ lastProv[1].replaced
  /\ lastProv[1].payload.note = <<>> /\ lastProv[1].payload.rows = 0
  /\ lastRows # <<>>

(***************************************************************************)
(* Claims about get_json (SpecHttp).                                       *)
(***************************************************************************)
\* C7: one get_json call issues at most 5 requests; it returns at the first
\* request that succeeds and issues none after it; it raises only after
\* exactly 5 failed requests; and the call always terminates: while it has
\* neither returned nor raised, fewer than 5 requests were issued and the
\* next pass of the loop can run.
C7_AtMostFiveRequests ==
  /\ Len(requests) <= 5
  /\ \A i \in DOMAIN requests : requests[i].ok => i = Len(requests) /\ hpc = "returned"
  /\ hpc = "returned" => Len(requests) >= 1 /\ requests[Len(requests)].ok
  /\ hpc = "raised" => Len(requests) = 5 /\ \A i \in DOMAIN requests : ~requests[i].ok
  /\ hpc = "request" => Len(requests) < 5 /\ ENABLED HttpAttempt

C7_Witness ==
  /\ hpc = "returned" /\ Len(requests) = 5

\* C8: when all attempts of a call fail, the exception raised to the caller
\* is the exception object of the last (5th) attempt, not of an earlier one.
C8_LastExceptionReraised ==
  hpc = "raised" =>
    /\ Len(raised) = 1
    /\ raised[1] = requests[5]
    /\ raised[1].n = 5 /\ ~raised[1].ok

C8_Witness ==
  /\ hpc = "raised"
  /\ requests[1].kind # requests[5].kind

\* 2^n
RECURSIVE Pow2(_)
Pow2(n) == IF n = 0 THEN 1 ELSE 2 * Pow2(n - 1)

\* C9: the n-th sleep of a call lasts between base * 2^(n-1) and twice that
\* (base 0.5 s), and no sleep lasts more than 8 s.
C9_SleepBounds ==
  \A n \in DOMAIN sleeps :
    /\ sleeps[n] >= 500 * Pow2(n - 1)
    /\ sleeps[n] <= 2 * 500 * Pow2(n - 1)
    /\ sleeps[n] <= 8000

C9_Witness ==
  /\ Len(sleeps) = 4
  /\ sleeps[4] = 8000 /\ sleeps[1] = 500

(***************************************************************************)
(* Claims about the collectors (SpecCollect).                              *)
(***************************************************************************)
\* K: the size of the resolved window; F: the items whose fetch failed
WindowSize == win[1].end - win[1].start + 1
FailedItems == {h \in DOMAIN task : task[h].out = "fail"}
OkItems == {h \in DOMAIN task : task[h].out = "ok"}
HeightsOf(frame) == {frame[i].height_or_slot.v : i \in DOMAIN frame}
BlocksRan == "blocks" \in datasets /\ win # <<>> /\ ~InvalidRange(win[1])

\* the rows the partition's data file of the configured format holds
\* (none when the run left the empty marker instead)
StoredRows ==
  IF format = "csv" /\ fs[ThePart].csv # <<>> THEN ReadCsv(fs[ThePart].csv[1])
  ELSE IF format = "parquet" /\ fs[ThePart].parquet # <<>> THEN ReadParquet(fs[ThePart].parquet[1])
  ELSE <<>>

\* C3: blocks collected by the eth2 or cosmos collector over a window of K
\* items of which F fail, sequentially or pooled: exactly K - F rows are
\* written, one per item that succeeded and none for a failed one, provenance
\* records rows = K - F, and collect propagates no exception (the window
\* being resolved and the configured format one write_rows supports): the
\* call runs on until it returns.
C3_PartialWindowRows ==
  (chain \in {"eth2", "cosmos"} /\ BlocksRan /\ format \in Formats) =>
    /\ cpc # "raised"
    /\ cpc # "done" => ENABLED CollectNext
    /\ cpc \in {"prov", "done"} =>
         /\ Len(rows) = WindowSize - Cardinality(FailedItems)
         /\ HeightsOf(rows) = OkItems
         /\ IF Len(rows) = 0 THEN fs[ThePart].empty
            ELSE /\ Len(StoredRows) = WindowSize - Cardinality(FailedItems)
                 /\ HeightsOf(StoredRows) = OkItems
    /\ cpc = "done" =>
         /\ fs[ThePart].prov # <<>>
         /\ fs[ThePart].prov[1].rows = WindowSize - Cardinality(FailedItems)

C3_Witness ==
  /\ cpc = "done" /\ chain = "cosmos" /\ BlocksRan /\ format = "csv"
  /\ max_workers > 1
  /\ WindowSize = 3 /\ FailedItems = {win[1].start + 1}
  /\ Len(StoredRows) = 2 /\ fs[ThePart].prov[1].rows = 2

\* C4: with max_workers > 1, blocks over a window of K items that all
\* succeed yield exactly K rows, one per height/slot of the window, none
\* twice and none missing, under every interleaving of the workers.
C4_PooledAllSucceed ==
  (Pooled(chain, max_workers) /\ BlocksRan /\ cpc \in {"prov", "done"}
     /\ \A h \in DOMAIN task : task[h].out = "ok") =>
    /\ Len(rows) = WindowSize
    /\ HeightsOf(rows) = win[1].start..win[1].end
    /\ \A i, j \in DOMAIN rows : rows[i] = rows[j] => i = j
    /\ format \in Formats =>
         /\ Len(StoredRows) = WindowSize
         /\ HeightsOf(StoredRows) = win[1].start..win[1].end

\* the pooled run whose rows are not in window order
C4_Witness ==
  /\ Pooled(chain, max_workers) /\ BlocksRan /\ cpc = "done"
  /\ \A h \in DOMAIN task : task[h].out = "ok"
  /\ WindowSize = 3
  /\ rows[1].height_or_slot.v = win[1].end

\* C5: for every collector, collect with explicit bounds where end < start
\* raises ValueError before any fetch is issued, and writes no partition
\* data, empty marker or provenance.
C5_InvalidRangeRaises ==
  (cpc # "idle" /\ explicit /\ win[1].end < win[1].start) =>
    /\ cpc = "raised"
    /\ cexc = <<[type |-> "ValueError", at |-> "collect"]>>
    /\ fetchLog = <<>>
    /\ fs = fs0

C5_Witness ==
  /\ cpc = "raised" /\ explicit /\ chain = "polkadot"
  /\ win[1].end < win[1].start
  /\ "blocks" \in datasets

\* C6: collect without explicit bounds, for every head the source reports
\* (0 included) and every lookback: the resolved window has start <= end,
\* its lower bound is at least the chain's minimum index, and its upper bound
\* is at most the head.
C6_LookbackWindowNonEmpty ==
  (~explicit /\ win # <<>>) =>
    /\ win[1].start <= win[1].end
    /\ win[1].start >= Floor(chain)
    /\ win[1].end <= head[1]

\* C10: after every blocks collection that returns (full, partial or empty)
\* the partition holds a provenance sidecar of that run whose rows field is
\* the number of rows the run handed to write_rows (0 for an empty-marked
\* run).
C10_ProvenanceRowCount ==
  (cpc = "done" /\ "blocks" \in datasets) =>
    /\ fs[ThePart].prov # <<>>
    /\ fs[ThePart].prov[1].rows = Len(rows)
    /\ fs[ThePart].prov[1].collector = CollectorName(chain)
    /\ fs[ThePart].prov[1].dataset = "blocks"
    /\ Len(rows) = 0 => fs[ThePart].empty /\ fs[ThePart].prov[1].rows = 0

\* an empty-marked run over a partition that held an earlier run's provenance
C10_Witness ==
  /\ cpc = "done" /\ "blocks" \in datasets /\ chain = "polkadot"
  /\ fs0 = EarlierRun(chain)
  /\ WindowSize = 2 /\ Len(rows) = 0
  /\ fs[ThePart].prov[1].rows = 0

\* the heights of the item fetches issued so far, in the order of issue
FetchedHeights == [i \in 1..Len(SelectSeq(fetchLog, LAMBDA e : e.ep = "block")) |-> SelectSeq(fetchLog, LAMBDA e : e.ep = "block")[i].h]

\* C15: the Polkadot collector runs sequentially whatever max_workers the
\* configuration holds: no fetch is ever handed to a pool, so never two calls
\* on its session are in flight together; heights are fetched one after the
\* other in window order and the rows are in window order.
C15_PolkadotSequential ==
  chain = "polkadot" =>
    /\ cpc \notin {"submit", "drain"}
    /\ Running = {} /\ Queued = {}
    /\ win # <<>> => \A i \in DOMAIN FetchedHeights : FetchedHeights[i] = win[1].start + i - 1
    /\ \A i, j \in DOMAIN rows : i < j => rows[i].height_or_slot.v < rows[j].height_or_slot.v

C15_Witness ==
  /\ chain = "polkadot" /\ max_workers > 1 /\ cpc = "done"
  /\ BlocksRan /\ WindowSize = 3 /\ Len(rows) = 3

(***************************************************************************)
(* Claims about collect over several datasets (SpecRun).                   *)
(***************************************************************************)
\* the fetches of the method the call is in
FetchesOfCur == SelectSeq(events, LAMBDA e : e.op = "fetch" /\ e.ds = cur)

\* the data file a method wrote in the configured format (optional)
StoredIn(d) ==
  IF format = "csv" THEN fs[RawPart(d)].csv
  ELSE IF format = "parquet" THEN fs[RawPart(d)].parquet ELSE <<>>

\* C11: within one collect call each dataset's write_rows is followed by the
\* write_provenance of the same partition, with no fetch and no write of
\* another dataset in between (none is in flight or still to come when the
\* rows are written), and a provenance write never precedes its dataset's
\* data write.
C11_WriteThenProvenance ==
  /\ \A i \in DOMAIN events :
       /\ events[i].op = "write_rows" =>
            IF i = Len(events)
            THEN /\ phase = "prov" /\ cur = events[i].ds
                 /\ todo = {} /\ inflight = {}
                 /\ ~ENABLED (RunSeqFetch \/ RunPoolFetch \/ RunPoolConsume \/ RunSingleFetch \/ RunPageFetch \/ RunPageFails \/ RunWriteRows)
                 /\ ENABLED RunWriteProvenance
            ELSE events[i + 1] = Event("write_provenance", events[i].ds, events[i].arg)
       /\ events[i].op = "write_provenance" =>
            /\ i > 1
            /\ events[i - 1] = Event("write_rows", events[i].ds, events[i].arg)
  /\ \A d \in AllDatasets :
       fs[RawPart(d)].prov # <<>> =>
         (fs[RawPart(d)].empty \/ fs[RawPart(d)].csv # <<>> \/ fs[RawPart(d)].parquet # <<>>)

C11_Witness ==
  /\ phase = "done" /\ chain = "eth2" /\ max_workers > 1
  /\ datasets = AllDatasets /\ win[1].end = 2
  /\ Len(events) = 15
  /\ \A d \in AllDatasets : fs[RawPart(d)].parquet # <<>> /\ fs[RawPart(d)].prov # <<>>
  /\ events[1] = Event("fetch", "blocks", 1) /\ events[2] = Event("fetch", "blocks", 2)
  /\ events[3] = Event("write_rows", "blocks", 2)

\* C16: when the datasets passed to the Polkadot collector's collect hold
\* "attestations" the request is silently skipped: no attestation fetch, no
\* raw attestations partition, marker or provenance, no error, and the other
\* requested datasets are collected as without it.
C16_PolkadotSkipsAttestations ==
  (chain = "polkadot" /\ "attestations" \in datasets) =>
    /\ cur # "attestations"
    /\ \A i \in DOMAIN events : events[i].ds # "attestations"
    /\ fs[RawPart("attestations")] = NoDir
    /\ format \in Formats => phase # "raised" /\ cexc = <<>>
    /\ phase \notin {"done", "raised"} => ENABLED RunNext
    /\ phase = "done" =>
         \A d \in AllDatasets \ {"attestations"} :
           IF d \in datasets
           THEN /\ fs[RawPart(d)].prov # <<>>
                /\ fs[RawPart(d)].prov[1].dataset = d
                /\ fs[RawPart(d)].prov[1].collector = MethodCollector(chain, d)
                /\ \E i \in DOMAIN events : events[i].op = "write_rows" /\ events[i].ds = d
           ELSE fs[RawPart(d)] = NoDir

C16_Witness ==
  /\ chain = "polkadot" /\ datasets = AllDatasets /\ phase = "done"
  /\ max_workers > 1 /\ win[1].end = 2
  /\ \A d \in AllDatasets \ {"attestations"} :
       fs[RawPart(d)].parquet # <<>> /\ fs[RawPart(d)].prov[1].rows >= 1

\* C17: for the paginated listings of cosmos (validators, signing infos) the
\* first request carries no cursor and each later one the next_key of the
\* page before; the loop goes on while pages return a next_key and stops at
\* the first page without one; when every page fetch succeeded the rows
\* written are the rows of every page served, each exactly once.
C17_PaginationFollowsCursor ==
  (chain = "cosmos" /\ cur # "" /\ Kind(chain, cur) = "paged") =>
    /\ \A i \in DOMAIN served :
         /\ served[i].key = IF i = 1 THEN <<>> ELSE served[i - 1].next
         /\ i < Len(served) => served[i].next # <<>>
         /\ FetchesOfCur[i].arg = IF served[i].key = <<>> THEN 0 ELSE served[i].key[1]
    /\ phase = "fetch" =>
         /\ cursor = IF served = <<>> THEN <<>> ELSE served[Len(served)].next
         /\ served # <<>> => served[Len(served)].next # <<>>
    /\ (phase \in {"write", "prov"} /\ Len(FetchesOfCur) = Len(served)) =>
         /\ served # <<>> /\ served[Len(served)].next = <<>>
         /\ rows = [i \in 1..Len(served) |-> DatasetRow(chain, cur, i)]
    /\ (phase = "prov" /\ Len(FetchesOfCur) = Len(served) /\ format \in Formats) =>
         /\ StoredIn(cur) = <<DataFrame(rows)>>
         /\ fs[RawPart(cur)].prov = <<>> \/ fs[RawPart(cur)].prov[1].rows = Len(served)

C17_Witness ==
  /\ chain = "cosmos" /\ cur = "penalties" /\ phase = "prov"
  /\ Len(served) = 2 /\ Len(FetchesOfCur) = 2
  /\ served[2].key = <<2>> /\ served[2].next = <<>>
  /\ Len(StoredIn(cur)[1]) = 2

(***************************************************************************)
(* Claims about the curate command (SpecCurate).                           *)
(***************************************************************************)
\* every row of the data files the raw partition of d held when the command
\* started
RawRowsAll(d) ==
  LET dir == fs0[RawPart(d)]
  IN (IF dir.parquet # <<>> THEN ReadParquet(dir.parquet[1]) ELSE <<>>)
       \o (IF dir.csv # <<>> THEN ReadCsv(dir.csv[1]) ELSE <<>>)

\* the rows of the curated data file of d in the configured format
CuratedRows(d) ==
  LET dir == fs[CuratedPart(d)]
  IN IF format = "csv" /\ dir.csv # <<>> THEN ReadCsv(dir.csv[1])
     ELSE IF format = "parquet" /\ dir.parquet # <<>> THEN ReadParquet(dir.parquet[1])
     ELSE <<>>

\* C18: for each raw table that has rows for the date, curate writes a
\* curated partition whose rows carry exactly the fixed curated column set of
\* the table, in every case; a column absent from the raw rows is present in
\* the curated rows with a null value.
C18_CuratedColumnSet ==
  (kpc # "idle" /\ format \in Formats) =>
    \A d \in AllDatasets :
      RawRowsAll(d) # <<>> =>
        /\ CuratedRows(d) # <<>>
        /\ \A i \in DOMAIN CuratedRows(d) :
             /\ DOMAIN CuratedRows(d)[i] = CuratedCols(d)
             /\ \A c \in CuratedCols(d) \ DOMAIN RawRowsAll(d)[1] :
                  CuratedRows(d)[i][c].t \in {"none", "nan"}

\* C19: for each raw table, the curated rows written by curate are exactly
\* the distinct projections onto the curated column set of all rows of the
\* raw partition, across every data file of it: no two curated rows are
\* identical and no raw row's projection is missing.
C19_CuratedDistinctProjections ==
  (kpc # "idle" /\ format = "parquet") =>
    \A d \in AllDatasets :
      RawRowsAll(d) # <<>> =>
        /\ {CuratedRows(d)[i] : i \in DOMAIN CuratedRows(d)}
             = {Project(RawRowsAll(d), CuratedCols(d))[i] : i \in DOMAIN RawRowsAll(d)}
        /\ \A i, j \in DOMAIN CuratedRows(d) : CuratedRows(d)[i] = CuratedRows(d)[j] => i = j

\* C20: when a raw table has no rows for the date (partition absent or only
\* empty-marked) curate writes no curated data file and no empty marker for
\* that table, raises no error, and still curates the other tables.
C20_AbsentRawTableSkipped ==
  (kpc # "idle" /\ format \in Formats) =>
    \A d \in AllDatasets :
      RawRowsAll(d) = <<>> =>
        /\ fs[CuratedPart(d)].csv = <<>> /\ fs[CuratedPart(d)].parquet = <<>>
        /\ ~fs[CuratedPart(d)].empty
        /\ kpc = "done" /\ kexc = ""
        /\ \A o \in AllDatasets : RawRowsAll(o) # <<>> => CuratedRows(o) # <<>>

\* the rows of the data files of the partition that can be parsed, the
\* parquet file first
ParsableRows(d) ==
  (IF d.parquet # <<>> /\ d.parquet[1] # Truncated THEN d.parquet[1] ELSE <<>>)
    \o (IF d.csv # <<>> /\ d.csv[1] # Truncated THEN d.csv[1] ELSE <<>>)

\* C27: read_any on a partition whose directory is absent returns an empty
\* row-set without raising; on a partition with several data files it
\* returns the concatenation of the rows of every file that can be parsed and
\* skips each file that cannot, without failing.
C27_ReadAnySkipsUnreadable ==
  [][storeOp' = "read_any" =>
       /\ storeExc' = ""
       /\ ~fs[ThePart].dir => storeRet' = <<>>
       /\ Len(storeRet') = Len(ParsableRows(fs[ThePart]))
       /\ \A i \in DOMAIN storeRet' :
            /\ KeyOf(storeRet'[i]).v = KeyOf(ParsableRows(fs[ThePart])[i]).v
            /\ DOMAIN storeRet'[i] = DOMAIN ParsableRows(fs[ThePart])[i]]_vars

C27_Witness ==
  /\ storeOp = "read_any" /\ storeExc = ""
  /\ fs[ThePart].parquet = <<Truncated>>
  /\ fs[ThePart].csv # <<>> /\ fs[ThePart].csv[1] # Truncated
  /\ Len(storeRet) = 2

\* C23: write_rows called with a format other than "csv" or "parquet" fails
\* with ValueError, for every list of rows including the empty list, and the
\* failing call creates no data file and no empty marker.
C23_UnsupportedFormatRaises ==
  [][(storeOp' = "write_rows" /\ storeFmt' \notin Formats)
       => (storeExc' = "ValueError" /\ fs' = fs)]_vars

\* C26: with max_workers <= 1 the items of the window are fetched strictly one
\* after another in increasing height/slot order (no fetch is queued or in
\* flight when the next one starts), and the rows written are in window
\* order.
C26_SequentialWindowOrder ==
  max_workers <= 1 =>
    /\ cpc \notin {"submit", "drain"}
    /\ \A h \in DOMAIN task : task[h].st \in {"new", "consumed"}
    /\ win # <<>> => \A i \in DOMAIN FetchedHeights : FetchedHeights[i] = win[1].start + i - 1
    /\ \A i, j \in DOMAIN rows : i < j => rows[i].height_or_slot.v < rows[j].height_or_slot.v
    /\ (cpc \in {"prov", "done"} /\ BlocksRan /\ rows # <<>>)
         => [i \in DOMAIN StoredRows |-> StoredRows[i].height_or_slot.v]
              = [i \in DOMAIN rows |-> rows[i].height_or_slot.v]

C26_Witness ==
  /\ max_workers = 1 /\ chain = "cosmos" /\ cpc = "done" /\ format = "csv"
  /\ BlocksRan /\ WindowSize = 3
  /\ Len(rows) = 2 /\ Len(StoredRows) = 2
  /\ Len(FetchedHeights) = 3

\* C29: in concurrent mode no window item is cancelled or left pending:
\* write_rows is called only after every dispatched task of the window has
\* completed or failed, so the written rows and the provenance count miss no
\* row of a task that finishes later.
C29_WriteAfterAllTasks ==
  (Pooled(chain, max_workers) /\ BlocksRan /\ cpc \in {"prov", "done"}) =>
    /\ DOMAIN task = WindowItems(win[1])
    /\ \A h \in DOMAIN task : task[h].st = "consumed"
    /\ HeightsOf(rows) = {h \in DOMAIN task : task[h].out = "ok"}
    /\ Len(rows) = Cardinality({h \in DOMAIN task : task[h].out = "ok"})
    /\ rows # <<>> => HeightsOf(StoredRows) = {h \in DOMAIN task : task[h].out = "ok"}
    /\ cpc = "done" => fs[ThePart].prov[1].rows = Cardinality({h \in DOMAIN task : task[h].out = "ok"})

C29_Witness ==
  /\ Pooled(chain, max_workers) /\ BlocksRan /\ cpc = "done"
  /\ WindowSize = 3 /\ Len(rows) = 2
  /\ rows[1].height_or_slot.v > rows[2].height_or_slot.v
  /\ fs[ThePart].prov[1].rows = 2

\* the item fetches issued so far for height h
FetchesOf(h) == {i \in DOMAIN FetchedHeights : FetchedHeights[i] = h}

\* C30: with max_workers = W > 1 exactly one task is dispatched per
\* height/slot of the window, and at every moment at most W item fetches are
\* in flight.
C30_OneTaskPerItemAtMostW ==
  (Pooled(chain, max_workers) /\ BlocksRan) =>
    /\ Cardinality(Running) <= max_workers
    /\ DOMAIN task = WindowItems(win[1])
    /\ \A h \in DOMAIN task :
         Cardinality(FetchesOf(h)) = (IF task[h].st \in {"new", "queued"} THEN 0 ELSE 1)
    /\ \A i \in DOMAIN FetchedHeights : FetchedHeights[i] \in WindowItems(win[1])
    /\ cpc \in {"prov", "done"} => Len(FetchedHeights) = WindowSize

C30_Witness ==
  /\ Pooled(chain, max_workers) /\ BlocksRan
  /\ Cardinality(Running) = max_workers
  /\ Queued # {}

\* the rows of the data files of the raw blocks partition
RawBlocks ==
  (IF fs[ThePart].parquet # <<>> THEN fs[ThePart].parquet[1] ELSE <<>>)
    \o (IF fs[ThePart].csv # <<>> THEN fs[ThePart].csv[1] ELSE <<>>)

\* C25: every Block, Attestation and Penalty row written to a raw partition
\* has height_or_slot >= 0, for every window the caller may pass (explicit
\* bounds with a negative start included) and every payload of the source.
C25_HeightNonNegative ==
  \A i \in DOMAIN RawBlocks : RawBlocks[i].height_or_slot.v >= 0

(***************************************************************************)
(* Claims about collect followed by curate (SpecPipeline).                 *)
(***************************************************************************)
\* the Penalty rows of the data file of the raw penalties partition
RawPenalties ==
  LET dir == fs[RawPart("penalties")]
  IN (IF dir.parquet # <<>> THEN dir.parquet[1] ELSE <<>>)
       \o (IF dir.csv # <<>> THEN dir.csv[1] ELSE <<>>)

CuratedPenalties ==
  LET dir == fs[CuratedPart("penalties")]
  IN (IF dir.parquet # <<>> THEN dir.parquet[1] ELSE <<>>)
       \o (IF dir.csv # <<>> THEN dir.csv[1] ELSE <<>>)

\* every written Penalty row without validator_id holds its source event
C24_RawPenaltyKeepsEvent ==
  \A i \in DOMAIN RawPenalties :
    RawPenalties[i].validator_id.t \in {"none", "nan", "empty"}
      => RawPenalties[i].meta_json.t = "str"

\* C24: every Penalty row a collector wrote whose validator_id is null has a
\* non-null meta_json holding the serialized source event, and after curate
\* the corresponding penalty_core row holds that meta_json.
C24_PenaltyMetaRetained ==
  /\ C24_RawPenaltyKeepsEvent
  /\ kpc # "idle" =>
       \A i \in DOMAIN RawPenalties :
         RawPenalties[i].validator_id.t \in {"none", "nan", "empty"} =>
           \E j \in DOMAIN CuratedPenalties :
             /\ CuratedPenalties[j].height_or_slot = RawPenalties[i].height_or_slot
             /\ CuratedPenalties[j].meta_json = RawPenalties[i].meta_json

(***************************************************************************)
(* Claims about the features command (SpecFeatures).                       *)
(***************************************************************************)
\* the rows of the data file a curated partition held when the command
\* started, as the file holds them
CuratedFile(d) ==
  LET dir == fs0[CuratedPart(d)]
  IN IF dir.parquet # <<>> THEN dir.parquet[1]
     ELSE IF dir.csv # <<>> THEN dir.csv[1]
     ELSE <<>>

\* the text of a value of an output row or of a file
TextOf(c) == CsvField(c)

\* C21: in the output of build_trust_signals_daily every validator's
\* penalty_count_v0 is the number of curated penalty rows whose validator_id
\* is the validator's id, whatever their other fields hold, and one row is
\* emitted per validator, with count 0 for a validator without penalty row.
C21_PenaltyCountPerValidator ==
  trustRows # <<>> =>
    /\ Len(trustRows[1]) = Len(CuratedFile("validators"))
    /\ \A i \in DOMAIN trustRows[1] :
         /\ TextOf(trustRows[1][i].validator_id) = TextOf(CuratedFile("validators")[i].validator_id)
         /\ trustRows[1][i].penalty_count_v0.v
              = Cardinality({j \in DOMAIN CuratedFile("penalties") :
                               TextOf(CuratedFile("penalties")[j].validator_id) = TextOf(trustRows[1][i].validator_id)})

\* C22: build_validator_stats_daily writes one output row for each of the
\* two curated inputs (validator_core, block_core) that is non-empty and none
\* for an absent or empty one; num_validators is the number of distinct
\* validator_id and num_blocks the number of distinct height_or_slot.
C22_StatsRowPerInput ==
  statsRows # <<>> =>
    LET out == statsRows[1]
        vfile == CuratedFile("validators")
        bfile == CuratedFile("blocks")
        written == ReadAny(fs, FeaturesPart("validator_stats_daily"))
    IN /\ Len(out) = (IF vfile # <<>> THEN 1 ELSE 0) + (IF bfile # <<>> THEN 1 ELSE 0)
       /\ vfile # <<>> =>
            /\ Cardinality({i \in DOMAIN out : "num_validators" \in DOMAIN out[i]}) = 1
            /\ out[1].num_validators.v = Cardinality({TextOf(vfile[i].validator_id) : i \in DOMAIN vfile})
       /\ vfile = <<>> => \A i \in DOMAIN out : "num_validators" \notin DOMAIN out[i]
       /\ bfile # <<>> =>
            /\ Cardinality({i \in DOMAIN out : "num_blocks" \in DOMAIN out[i]}) = 1
            /\ out[Len(out)].num_blocks.v = Cardinality({bfile[i].height_or_slot.v : i \in DOMAIN bfile})
       /\ bfile = <<>> => \A i \in DOMAIN out : "num_blocks" \notin DOMAIN out[i]
       /\ (fexc = "" /\ format \in Formats) =>
            /\ Len(written) = Len(out)
            /\ (Len(out) = 0) = fs[FeaturesPart("validator_stats_daily")].empty

C22_Witness ==
  /\ statsRows # <<>> /\ Len(statsRows[1]) = 1
  /\ Len(CuratedFile("validators")) = 2
  /\ statsRows[1][1].num_validators.v = 2
  /\ ~fs0[CuratedPart("blocks")].dir
  /\ fs[FeaturesPart("validator_stats_daily")].parquet # <<>>

(***************************************************************************)
(* Claims about HttpClient (SpecClient).                                   *)
(***************************************************************************)
\* C28: for an HttpClient configured with api_key_transport "query",
\* _inject_key(params, headers) returns query parameters that contain apikey
\* equal to the configured key and leaves the passed headers without the key;
\* the key is sent in the query string and not in a header.
C28_QueryTransportInjectsKey ==
  api_key_transport = "query" =>
    /\ clientOp = "_inject_key" =>
         /\ clientExc = ""
         /\ clientRet # <<>>
         /\ "apikey" \in DOMAIN clientRet[1]
         /\ clientRet[1]["apikey"] = api_key
         /\ clientHeaders = clientArgs[2]
    /\ clientOp = "get_json" =>
         /\ "apikey" \notin DOMAIN clientHeaders
         /\ \A i \in DOMAIN clientSent :
              /\ "apikey" \notin DOMAIN clientSent[i].headers
              /\ clientSent[i].params # <<>>
              /\ "apikey" \in DOMAIN clientSent[i].params[1]

(***************************************************************************)
(* Claims about one dataset method (SpecMethod).                           *)
(***************************************************************************)
\* the rows of the method's list that carry height or slot k
RowsOfItem(k) == {j \in DOMAIN mrows : mrows[j].height_or_slot = IntCell(k)}

\* the data file the method wrote in the configured format (optional)
MethodStored ==
  IF format = "csv" THEN fs[RawPart(mds)].csv
  ELSE IF format = "parquet" THEN fs[RawPart(mds)].parquet ELSE <<>>

C32_SameSnapshotTs ==
  mds = "validators" =>
    /\ \A i \in DOMAIN mrows : \A j \in DOMAIN mrows : mrows[i].snapshot_ts = mrows[j].snapshot_ts
    /\ mrows # <<>> => (now # <<>> /\ mrows[1].snapshot_ts = IntCell(now[1]))
    /\ (now # <<>> /\ Kind(chain, mds) = "paged") => \A n \in DOMAIN mlog : now[1] <= mlog[n].at
    /\ (mpc \in {"prov", "done"} /\ mrows # <<>> /\ format \in Formats) =>
         /\ MethodStored # <<>>
         /\ Len(MethodStored[1]) = Len(mrows)
         /\ \A i \in DOMAIN MethodStored[1] : MethodStored[1][i].snapshot_ts = IntCell(now[1])

C32_Witness ==
  /\ chain = "cosmos" /\ mds = "validators" /\ mpc = "done" /\ format = "parquet"
  /\ Len(mlog) = 2 /\ mlog[1].at < mlog[2].at /\ now = <<0>>
  /\ Len(mlog[1].payload.entries) >= 1 /\ mlog[2].payload.entries = <<"ok", "ok">>
  /\ Len(mrows) >= 3
  /\ Len(MethodStored[1]) = Len(mrows)

\* C33: when the request of the eth2 validator snapshot raises, _validators
\* goes on without raising: its list stays empty, write_rows leaves the empty
\* marker and no data file in the raw validators partition, the provenance
\* record says rows = 0, and the partition ends as after a snapshot that
\* listed no validator.
C33_FailedSnapshotWritesMarker ==
  (chain = "eth2" /\ mds = "validators" /\ mlog # <<>>
     /\ (mlog[1].payload.fetch = "fail" \/ (mlog[1].payload.fetch = "ok" /\ mlog[1].payload.entries = <<>>))) =>
    /\ mpc # "raised" /\ mexc = ""
    /\ mrows = <<>>
    /\ mpc \in {"write", "prov", "done"}
    /\ mpc \in {"prov", "done"} =>
         /\ fs[RawPart(mds)].dir /\ fs[RawPart(mds)].empty
         /\ fs[RawPart(mds)].csv = <<>> /\ fs[RawPart(mds)].parquet = <<>>
    /\ mpc = "prov" => fs[RawPart(mds)].prov = <<>>
    /\ mpc = "done" =>
         /\ Len(fs[RawPart(mds)].prov) = 1
         /\ fs[RawPart(mds)].prov[1].rows = 0
         /\ fs[RawPart(mds)].prov[1].dataset = "validators"
         /\ fs[RawPart(mds)].prov[1].collector = "eth2.validators"
         /\ fs[RawPart(mds)].prov[1].api_version = "v1"

C33_Witness ==
  /\ chain = "eth2" /\ mds = "validators" /\ mpc = "done"
  /\ Len(mlog) = 1 /\ mlog[1].payload.fetch = "fail"
  /\ fs[RawPart("validators")].empty
  /\ fs[RawPart("validators")].prov[1].rows = 0

\* the rows of the pages the first n fetches of the call got
PagesRows(n) ==
  LET RECURSIVE Upto(_)
      Upto(k) == IF k = 0 THEN <<>>
                 ELSE Upto(k - 1) \o MapEntries(chain, mds, k, mlog[k].payload.entries, IF now = <<>> THEN 0 ELSE now[1])
  IN Upto(n)

\* C35: when the request of page n > 1 of a cosmos paginated listing
\* (validators, signing infos) raises, the loop is left: no later page is
\* requested, the list holds the rows of pages 1..n-1, write_rows stores them,
\* the provenance record counts them, and the method returns without raising
\* (for a format write_rows supports).
C35_PartialPagesKept ==
  \A n \in DOMAIN mlog :
    (chain = "cosmos" /\ Kind(chain, mds) = "paged" /\ n > 1 /\ mlog[n].payload.fetch = "fail") =>
      /\ n = Len(mlog)
      /\ \A k \in 1..(n - 1) : mlog[k].payload.fetch = "ok"
      /\ mpc # "fetch"
      /\ ~ENABLED MethodFetchPage
      /\ mrows = PagesRows(n - 1)
      /\ (format \in Formats \/ mrows = <<>>) => (mpc \in {"write", "prov", "done"} /\ mexc = "")
      /\ (mpc \in {"prov", "done"} /\ mrows # <<>>) => MethodStored = <<DataFrame(mrows)>>
      /\ (mpc \in {"prov", "done"} /\ mrows = <<>>) => fs[RawPart(mds)].empty
      /\ mpc = "done" => fs[RawPart(mds)].prov[1].rows = Len(mrows)

C35_Witness ==
  /\ chain = "cosmos" /\ mds = "penalties" /\ mpc = "done" /\ format = "parquet"
  /\ Len(mlog) = 2 /\ mlog[2].payload.fetch = "fail" /\ mlog[2].arg = 2
  /\ mlog[1].payload.entries = <<"ok", "ok">>
  /\ Len(MethodStored[1]) = 2
  /\ fs[RawPart("penalties")].prov[1].rows = 2

(***************************************************************************)
(* Claims about the window of collect (SpecWindow).                        *)
(***************************************************************************)
\* C36: when collect is given exactly one of the two bounds, that bound is
\* not used: the head is queried first and, once it answered, the window is
\* [max(floor, head - lookback + 1), head] with floor 0 (eth2) or 1, a
\* lookback of None or 0 standing for 512 (eth2), 2000 (cosmos) or 1024
\* (polkadot); the items fetched are items of that window and, when _blocks
\* writes, all of them.
C36_OneBoundDiscarded ==
  (cpc # "idle" /\ (start_arg = <<>>) # (end_arg = <<>>)) =>
    /\ ~explicit
    /\ fetchLog # <<>> /\ fetchLog[1] = HeadFetch
    /\ head = <<>> => (cpc = "raised" /\ cexc[1].at = "head" /\ win = <<>>)
    /\ head # <<>> =>
         LET lb == IF lookback_arg = <<>> \/ lookback_arg[1] = 0
                   THEN (IF chain = "eth2" THEN 512 ELSE IF chain = "cosmos" THEN 2000 ELSE 1024)
                   ELSE lookback_arg[1]
             lo == IF chain = "eth2" THEN 0 ELSE 1
             st == IF head[1] - lb + 1 > lo THEN head[1] - lb + 1 ELSE lo
         IN /\ win = <<[start |-> st, end |-> head[1]]>>
            /\ \A i \in 2..Len(fetchLog) : fetchLog[i].ep = "block" /\ fetchLog[i].h \in st..head[1]
            /\ cpc \in {"prov", "done"} /\ "blocks" \in datasets =>
                 {fetchLog[i].h : i \in 2..Len(fetchLog)} = st..head[1]
            /\ cpc = "raised" => (cexc[1].type = "ValueError" /\ head[1] < st)

C36_Witness ==
  /\ chain = "eth2" /\ start_arg = <<2>> /\ end_arg = <<>> /\ lookback_arg = <<0>>
  /\ head = <<1>> /\ win = <<[start |-> 0, end |-> 1]>>
  /\ cpc = "done" /\ datasets = {"blocks"}
  /\ Len(rows) = 2 /\ Len(fetchLog) = 3

(***************************************************************************)
(* Claims about collect_validator_rows (SpecPerf).                         *)
(***************************************************************************)
\* the rows of the first n indexes whose two requests the source answers
MergedRows(n) ==
  LET RECURSIVE Upto(_)
      Upto(k) == IF k = 0 THEN <<>>
                 ELSE IF answers[indexes[k]].ov = "ok" /\ answers[indexes[k]].pf = "ok"
                 THEN Append(Upto(k - 1), Merge(Overview(indexes[k]), Performance(indexes[k])))
                 ELSE Upto(k - 1)
  IN Upto(n)

WorkerStep ==
  \E h \in DOMAIN task :
    /\ h \in DOMAIN task'
    /\ \/ task[h].st = "queued" /\ task'[h].st = "running"
       \/ task[h].st = "running" /\ task'[h].st = "done"

\* a step of the dispatching thread that consumes the future of item h
Consumes(h) ==
  /\ task[h].st = "done" /\ task'[h].st = "consumed"
  /\ rows' = AppendResult(rows, FetchBlock(chain, h, task[h].out))

\* C37 as stated: in concurrent mode a worker task changes neither the
\* result list nor any other state the tasks share (its own future apart);
\* the list changes only when the dispatching thread consumes a completed
\* future, by the row of that future, so that the list written holds the row
\* of every successful task exactly once.
C37_OnlyDispatcherWritesShared ==
  [][(Pooled(chain, max_workers) /\ cpc \in {"submit", "drain"}) =>
       /\ WorkerStep => (rows' = rows /\ session' = session /\ fs' = fs /\ nextItem' = nextItem /\ cpc' = cpc)
       /\ rows' # rows => (cpc = "drain" /\ \E h \in DOMAIN task : Consumes(h))
       /\ cpc' = "prov" =>
            /\ HeightsOf(rows') = {h \in DOMAIN task : task[h].out = "ok"}
            /\ Len(rows') = Cardinality({h \in DOMAIN task : task[h].out = "ok"})]_vars

\* C37, amended: in concurrent mode a worker task changes neither the result
\* list nor any state of the collect call (its own future apart); what the
\* tasks do share and change is the HTTP session of the module, by the one
\* request each task sends through it.  The list changes only when the
\* dispatching thread consumes a completed future, by the row of that
\* future, so that the list written holds the row of every successful task
\* exactly once.
C37_WorkersWriteOnlySession ==
  [][(Pooled(chain, max_workers) /\ cpc \in {"submit", "drain"}) =>
       /\ WorkerStep =>
            /\ rows' = rows /\ fs' = fs /\ nextItem' = nextItem /\ cpc' = cpc
            /\ session' \in {session, session + 1}
            /\ session' = session + Len(fetchLog') - Len(fetchLog)
       /\ rows' # rows => (cpc = "drain" /\ session' = session /\ \E h \in DOMAIN task : Consumes(h))
       /\ cpc' = "prov" =>
            /\ HeightsOf(rows') = {h \in DOMAIN task : task[h].out = "ok"}
            /\ Len(rows') = Cardinality({h \in DOMAIN task : task[h].out = "ok"})]_vars

C37_Witness ==
  /\ Pooled(chain, max_workers) /\ BlocksRan /\ cpc = "done" /\ explicit
  /\ WindowSize = 3 /\ Len(rows) = 3 /\ session = 3
  /\ rows[1].height_or_slot.v > rows[3].height_or_slot.v

(***************************************************************************)
(* Claims about the pacing of HttpClient (SpecPace).                       *)
(***************************************************************************)
\* C38: for an HttpClient with rate_limit_seconds = R > 0 shared by threads,
\* the slot is taken under the lock, the wait included: at most one thread
\* is inside, any two calls of _wait_for_slot return (and their requests
\* start) at least R seconds apart, and _next_at never decreases.
C38_PacedStartsApart ==
  [][/\ next_at' >= next_at
     /\ Paced(rate_limit_seconds) =>
          /\ Cardinality({t \in Threads : tpc'[t] = "sleeping"}) <= 1
          /\ \A t \in Threads : tpc'[t] = "sleeping" => lock' = t
          /\ \A i \in DOMAIN starts' : \A j \in DOMAIN starts' :
               i < j => starts'[j].at - starts'[i].at >= rate_limit_seconds]_vars


\* C39: one HttpClient.get_json call sends at most two requests: a first answer
\* with status 429 is retried exactly once, after a delay that is Retry-After
\* when that parses as a number and max(rate_limit_seconds, 1.0) otherwise; a
\* second 429, or any other status outside 2xx, is raised to the caller and
\* nothing more is sent.
C39_RetryOnceOn429 ==
  clientOp = "get_json" =>
    /\ tries <= 2
    /\ responses[1].status = 429 =>
         /\ tries = 2
         /\ slept = <<RetryDelay(responses[1], rate_limit_seconds)>>
    /\ responses[1].status # 429 => tries = 1 /\ slept = <<>>
    /\ (responses[Len(responses)].status < 200 \/ responses[Len(responses)].status >= 300) =>
         clientExc = "HTTPError"


(***************************************************************************)
(* Claims about the effect of read_any on the store (SpecStore).           *)
(***************************************************************************)
\* C40: read_any on a partition that was never written creates the partition
\* directory and no file in it, and a read_any call leaves the data files,
\* the empty marker and the provenance sidecar of every partition as they
\* were.
C40_ReadAnyLeavesFiles ==
  [][storeOp' = "read_any" =>
       /\ fs'[ThePart].dir
       /\ fs[ThePart] = NoDir => fs'[ThePart] = [NoDir EXCEPT !.dir = TRUE]
       /\ \A p \in DOMAIN fs :
            /\ fs'[p].csv = fs[p].csv
            /\ fs'[p].parquet = fs[p].parquet
            /\ fs'[p].empty = fs[p].empty
            /\ fs'[p].prov = fs[p].prov]_vars

C40_Witness ==
  /\ storeOp = "read_any"
  /\ storeRet = <<>>
  /\ fs[ThePart] = [NoDir EXCEPT !.dir = TRUE]

====
